---------------------------- MODULE Spec2Model ----------------------------
(***************************************************************************)
(* A model of the Codelution / Nordcraft browser extension:                *)
(*   - src/src/content.js  lines 1-1278   : the content script              *)
(*   - src/src/content.js  lines 1279-1451: the sidebar page script         *)
(*   - src/unnamed/part_000               : the background service worker  *)
(*                                                                         *)
(* Every execution context is single threaded: one action of the model is  *)
(* one callback (listener, timer, storage callback) run to completion.     *)
(* The module holds one specification per component (SpecMsg, SpecWatch,   *)
(* SpecNav, SpecPanel, SpecInject, SpecSidebarPage); they share the        *)
(* variables and the operators that model the handlers.                    *)
(***************************************************************************)
EXTENDS Integers, Sequences, FiniteSets, Bags, TLC

VARIABLES
    \* ---- configuration (content.js:26)
    extensionConfig,
    \* ---- page DOM addressed by selectors, and the panel iframe
    els,            \* selector-addressed page elements
    iframe,         \* TRUE iff #sidebar-container-nordcraft exists
    \* ---- outputs of the last callback
    emitted,        \* sequence of messages the last callback sent
    threw,          \* TRUE iff the last callback ended with an exception
    \* ---- content window 'message' listener
    lastEvent,      \* the event the window listener handled in the last
                    \* callback; NoEvent when that was another callback
    \* ---- DOM watch manager
    bindings,       \* listeners / observers created by the observe handlers
    \* ---- web component injector
    registered,     \* names defined in the customElements registry
    regAvailable,   \* FALSE iff typeof customElements === 'undefined'
    slots,          \* the target elements still in the document
    customEls,      \* the custom elements created so far
    pageScripts,    \* src of the stand-alone script tags of the page
    retryQ,         \* pending setTimeout(createCustomElement, 500) calls
    calls,          \* history: number of inject calls, the first one, all alike
    \* ---- navigation detector
    location,       \* window.location.href
    docTitle,       \* document.title
    currentUrl,     \* content.js:548
    currentTitle,   \* content.js:645
    detecting,      \* TRUE once initializeUrlDetection has run
    popstatePending,\* a popstate event is queued
    titleTimers,    \* pending 100 ms re-checks set by the title observer
    navHist,        \* history: location changes and notifications since the
                    \* detector was last at rest, and whether a poll followed
    \* ---- panel visibility state machine
    now,            \* Date.now(), in minutes
    storage,        \* chrome.storage.local: sidebarOpen, sidebarUrl, lastStateChange
    wrapper,        \* #my-chrome-sidebar-wrapper: "none", "hidden" or "open"
    btn,            \* #my-chrome-sidebar-btn: "none", "shown" or "hidden"
    ctx,            \* the tab's content script: "none", "started" or "ready"
    tasks,          \* bag of pending timers, storage requests and messages
    otherOpen,      \* whether the panel of another tab is open
    completes,      \* number of load-complete events of the tab so far
    panelHist,      \* history of the restore evaluations and the writes
    \* ---- sidebar page (the extension page that hosts the panel iframe)
    tabQ,           \* chrome.tabs.sendMessage requests on their way to the tab
    pageQ,          \* runtime messages and responses on their way to the page
    pageIframe      \* the sidebar page holds the panel iframe

vars == <<extensionConfig, els, iframe, emitted, threw, lastEvent,
          bindings, registered, regAvailable, slots, customEls, pageScripts,
          retryQ, calls, location, docTitle, currentUrl, currentTitle,
          detecting, popstatePending, titleTimers, navHist, now, storage,
          wrapper, btn, ctx, tasks, otherOpen, completes, panelHist,
          tabQ, pageQ, pageIframe>>

cfgVars    == <<extensionConfig>>
domVars    == <<els, iframe>>
outVars    == <<emitted, threw, lastEvent>>
watchVars  == <<bindings>>
navVars    == <<location, docTitle, currentUrl, currentTitle, detecting,
                popstatePending, titleTimers, navHist>>
panelVars  == <<now, storage, wrapper, btn, ctx, tasks, otherOpen, completes,
                panelHist>>
pageVars   == <<tabQ, pageQ, pageIframe>>
injectVars == <<registered, regAvailable, slots, customEls, pageScripts,
                retryQ, calls>>

-----------------------------------------------------------------------------
(* JavaScript values.  Every value is a record with a "kind", so that any   *)
(* two values can be compared.                                              *)

Null == [kind |-> "null"]                      \* null and undefined
Str(s) == [kind |-> "string", text |-> s]      \* a string that is no URL
Url(scheme, host, port) ==
    [kind |-> "url", scheme |-> scheme, host |-> host, port |-> port]

\* new URL(x) throws unless x is the text of an absolute URL.
UrlParses(x) == x.kind = "url"

DefaultPort(scheme) ==
    CASE scheme = "https" -> "443"
      [] scheme = "http"  -> "80"
      [] OTHER            -> ""

\* URL.prototype.origin: scheme://host[:port] for http(s), the string
\* "null" for schemes with an opaque origin (data:, file:).
UrlOrigin(u) ==
    IF u.scheme \in {"http", "https"}
    THEN u.scheme \o "://" \o u.host \o
         (IF u.port = "" \/ u.port = DefaultPort(u.scheme)
          THEN "" ELSE ":" \o u.port)
    ELSE "null"

-----------------------------------------------------------------------------
(* Configuration: loadExtensionConfig, getConfig, getTrustedOrigin.         *)

PanelUrl   == Url("https", "panel.example", "")
DefaultUrl == Url("https", "add-functions-codelution_chrome_extension.toddle.site", "")

IframeSrcKey   == "sidebar.iframeSrc"
AutoRestoreKey == "behavior.autoRestoreTimeMinutes"

DefaultAutoRestoreMinutes == 5

\* The fallback of loadExtensionConfig's catch branch.
DefaultConfig ==
    (IframeSrcKey :> DefaultUrl) @@ (AutoRestoreKey :> DefaultAutoRestoreMinutes)

\* What config/settings.json may hold: a well-formed panel URL, a text that
\* is no URL, a URL with an opaque origin, or no sidebar.iframeSrc key.
SettingsFiles ==
    { (IframeSrcKey :> PanelUrl) @@ (AutoRestoreKey :> DefaultAutoRestoreMinutes),
      (IframeSrcKey :> Str("not a url")) @@ (AutoRestoreKey :> DefaultAutoRestoreMinutes),
      (AutoRestoreKey :> DefaultAutoRestoreMinutes) }

NoConfig == Null

\* A callback that sends nothing, throws nothing and is not the window
\* listener.
\* What a listener received in a step: the context it runs in (at), the
\* fields of the message its handlers read, and the handlers that ran.
EventOf(at, origin, type, action, selector, attribute, id, ran) ==
    [origin |-> origin, type |-> type, at |-> at, action |-> action,
     selector |-> selector, attribute |-> attribute, id |-> id, ran |-> ran,
     returned |-> "undefined"]

NoEvent == EventOf("-", "-", "-", "-", "-", "-", "-", <<>>)

\* The event a 'message' listener of the tab's window ("window") or of the
\* sidebar page ("page") received.
Event(at, origin, data, ran) ==
    IF data.kind = "object"
    THEN EventOf(at, origin, data.type, data.action, data.selector, data.attribute,
                 data.id, ran)
    ELSE EventOf(at, origin, data.type, "-", "-", "-", "-", ran)

\* The branches of a listener, <<handler, condition>> in the order of the
\* code: the handlers whose condition holds.
Holding(branches) ==
    LET held == SelectSeq(branches, LAMBDA b : b[2])
    IN [i \in DOMAIN held |-> held[i][1]]

\* if / else if / ...: of the branches whose condition holds the first runs.
ElseIfChain_All(holding) == holding

ElseIfChain(holding) == IF holding = <<>> THEN <<>> ELSE <<Head(holding)>>

Quiet ==
    /\ emitted' = <<>>
    /\ threw' = FALSE
    /\ lastEvent' = NoEvent

getConfig(path, fallback) ==
    IF extensionConfig = NoConfig THEN fallback
    ELSE IF path \in DOMAIN extensionConfig THEN extensionConfig[path]
    ELSE fallback

getTrustedOrigin ==
    LET iframeSrc == getConfig(IframeSrcKey, Null) IN
    IF UrlParses(iframeSrc) THEN UrlOrigin(iframeSrc) ELSE ""

\* loadExtensionConfig: the fetched settings, or the defaults when the
\* fetch or the JSON parse fails.
LoadConfig ==
    /\ extensionConfig = NoConfig
    /\ \E c \in SettingsFiles \cup {DefaultConfig} : extensionConfig' = c
    /\ Quiet
    /\ UNCHANGED <<domVars, watchVars, injectVars, navVars, panelVars, pageVars>>


-----------------------------------------------------------------------------
(* The page element the selectors of the requests address.                  *)
(* "#el" matches one input element while it exists; "#none" matches         *)
(* nothing.  The element has the properties value and innerText and may     *)
(* carry the attribute data-x (read with getAttribute).                     *)

JsNull == "<null>"
Values == {"a", "b"}

ElSelector   == "#el"
NoneSelector == "#none"
Selectors    == {ElSelector, NoneSelector}

\* document.querySelector(selector): TRUE iff it returns an element.
Matches_Always(selector) == TRUE

Matches(selector) == selector = ElSelector /\ els.exists

\* (attribute in el) ? el[attribute] : el.getAttribute(attribute)
ReadValue_AttributeOnly(el, attribute) ==
    IF attribute = "data-x" THEN el.dataX ELSE JsNull

ReadValue(el, attribute) ==
    CASE attribute = "value"     -> el.value
      [] attribute = "innerText" -> el.text
      [] attribute = "data-x"    -> el.dataX
      [] OTHER                   -> JsNull

\* attribute || 'innerText'
AttributeOrDefault(attribute) == IF attribute = JsNull THEN "innerText" ELSE attribute

\* eventType || (attribute === 'value' ? 'input' : 'DOMSubtreeModified')
EventTypeOrDefault(eventType, attribute) ==
    IF eventType # JsNull THEN eventType
    ELSE IF attribute = "value" THEN "input" ELSE "DOMSubtreeModified"

-----------------------------------------------------------------------------
(* Outbound messages.  ch is "post" (iframe.contentWindow.postMessage),     *)
(* "runtime" (chrome.runtime.sendMessage) or "tab" (chrome.tabs.sendMessage)*)

Msg(ch, type, target, id, value) ==
    [ch |-> ch, type |-> type, target |-> target, id |-> id, value |-> value]

\* postMessage(message, targetOrigin) throws a SyntaxError unless
\* targetOrigin is "*", "/" or the text of an absolute URL.
PostThrows(target) == target = ""

-----------------------------------------------------------------------------
(* DOM watch manager: the bindings and their firing.                        *)

Binding(watchId, selector, attribute, eventType, lastValue, channel, hasIframe) ==
    [watchId |-> watchId, selector |-> selector, attribute |-> attribute,
     eventType |-> eventType, lastValue |-> lastValue, channel |-> channel,
     hasIframe |-> hasIframe]

\* The notification a binding sends for value v: a post to the iframe it
\* captured at registration (window channel; nothing without iframe), or a
\* runtime message (host channel).
Notification_FirstId(b, v) ==
    IF b.channel = "window"
    THEN IF b.hasIframe
         THEN <<Msg("post", "domValueChanged", getTrustedOrigin, "w1", v)>>
         ELSE <<>>
    ELSE <<Msg("runtime", "domValueChanged", "", "w1", v)>>

Notification(b, v) ==
    IF b.channel = "window"
    THEN IF b.hasIframe
         THEN <<Msg("post", "domValueChanged", getTrustedOrigin, b.watchId, v)>>
         ELSE <<>>
    ELSE <<Msg("runtime", "domValueChanged", "", b.watchId, v)>>

\* A post with an invalid target origin throws inside the callback: nothing
\* is sent.
Delivered(msgs) == SelectSeq(msgs, LAMBDA m : ~(m.ch = "post" /\ PostThrows(m.target)))
AnyThrows(msgs) == \E i \in DOMAIN msgs : msgs[i].ch = "post" /\ PostThrows(msgs[i].target)

\* Whether binding b is invoked when `trigger` happens on the element:
\* an event of its type for a listener, a subtree mutation for an observer.
Triggered(b, trigger) ==
    IF trigger = "mutation" THEN b.eventType = "DOMSubtreeModified"
    ELSE b.eventType # "DOMSubtreeModified" /\ b.eventType = trigger

\* if (value !== lastValue) { lastValue = value; notify }
BindingChanged_NoGate(b, el, trigger) == Triggered(b, trigger)

BindingChanged(b, el, trigger) ==
    Triggered(b, trigger) /\ ReadValue(el, b.attribute) # b.lastValue

\* The bindings after the triggered callbacks have run on element el.
FiredBindings(bs, el, trigger) ==
    [i \in DOMAIN bs |->
        IF BindingChanged(bs[i], el, trigger)
        THEN [bs[i] EXCEPT !.lastValue = ReadValue(el, bs[i].attribute)]
        ELSE bs[i]]

\* The notifications of the triggered callbacks, in registration order.
RECURSIVE FiredNotes(_, _, _)
FiredNotes(bs, el, trigger) ==
    IF bs = <<>> THEN <<>>
    ELSE (IF BindingChanged(Head(bs), el, trigger)
          THEN Notification(Head(bs), ReadValue(el, Head(bs).attribute))
          ELSE <<>>) \o FiredNotes(Tail(bs), el, trigger)

\* Dispatching a list of triggers one after the other (el.dispatchEvent is
\* synchronous; mutation callbacks run at the end of the task).
RECURSIVE FiredAllBindings(_, _, _)
FiredAllBindings(bs, el, triggers) ==
    IF triggers = <<>> THEN bs
    ELSE FiredAllBindings(FiredBindings(bs, el, Head(triggers)), el, Tail(triggers))

RECURSIVE FiredAllNotes(_, _, _)
FiredAllNotes(bs, el, triggers) ==
    IF triggers = <<>> THEN <<>>
    ELSE FiredNotes(bs, el, Head(triggers)) \o
         FiredAllNotes(FiredBindings(bs, el, Head(triggers)), el, Tail(triggers))

-----------------------------------------------------------------------------
(* Web component injector.                                                  *)
(* The document body holds two containers: P1 with the targets T1 and T2,   *)
(* and P2 with the target T3.  A custom element is placed inside a target   *)
(* as its first or last child, in the place of a target (under the target's *)
(* parent), or at the end of body.                                           *)

MaxInjects == 2

Targets == {"T1", "T2", "T3"}

TargetRank(t) == CASE t = "T1" -> 1 [] t = "T2" -> 2 [] t = "T3" -> 3 [] OTHER -> 9

ParentOf(t) == IF t \in {"T1", "T2"} THEN "P1" ELSE "P2"

\* The targets a CSS selector matches.
SelectorTargets(selector) ==
    CASE selector = "#t1"   -> {"T1"}
      [] selector = "#t2"   -> {"T2"}
      [] selector = "#t3"   -> {"T3"}
      [] selector = ".wide" -> {"T1", "T3"}
      [] OTHER              -> {}

InjSelectors == {"#t1", "#t2", "#t3", ".wide", JsNull}
Placements   == {"replace", "prepend", JsNull}
Names        == {"x-widget"}
Srcs         == {"a.js", "b.js"}

Request(name, src, selector, placement) ==
    [name |-> name, src |-> src, selector |-> selector, placement |-> placement]

NoRequest == Request(JsNull, JsNull, JsNull, JsNull)

\* selector ? document.querySelector(selector) : null   (first match in
\* document order; JsNull when there is none)
QueryTarget(selector) ==
    LET m == SelectorTargets(selector) \cap slots IN
    IF selector = JsNull \/ m = {} THEN JsNull
    ELSE CHOOSE t \in m : \A u \in m : TargetRank(t) <= TargetRank(u)

CustomEl(name, kind, at, scripts) ==
    [name |-> name, kind |-> kind, at |-> at, scripts |-> scripts]

ElIndexes == DOMAIN customEls

\* target.querySelector(name)
InTarget(e, t) == e.kind \in {"first", "last"} /\ e.at = t
\* target.parentNode.querySelector(name): the parent's whole subtree
InParent(e, p) == e.kind # "body" /\ ParentOf(e.at) = p

DocRank(e) == IF e.kind = "body" THEN 10 ELSE TargetRank(e.at)

NamedIndexes(name) == {i \in ElIndexes : customEls[i].name = name}

\* document.querySelector(name): index of the first element of that type, 0
\* when there is none.
QueryCustomEl(name) ==
    LET m == NamedIndexes(name) IN
    IF m = {} THEN 0
    ELSE CHOOSE i \in m : \A j \in m : DocRank(customEls[i]) <= DocRank(customEls[j])

\* document.querySelector(`script[src="${scriptSrc}"]`)
ScriptExists(src) ==
    src \in pageScripts \/ \E i \in ElIndexes : src \in customEls[i].scripts

\* if (target.querySelector(name) || (target.parentNode &&
\*     target.parentNode.querySelector(name))) return;
AlreadyNear(name, target) ==
    \E i \in NamedIndexes(name) :
        \/ InTarget(customEls[i], target)
        \/ InParent(customEls[i], ParentOf(target))

\* The elements left when target t is replaced: those inside it go with it.
RECURSIVE Without(_, _)
Without(es, t) ==
    IF es = <<>> THEN <<>>
    ELSE (IF InTarget(Head(es), t) THEN <<>> ELSE <<Head(es)>>) \o Without(Tail(es), t)

\* The second half of createCustomElement: the element type is usable.
PlaceCustomElement(req) ==
    LET target == QueryTarget(req.selector)
        placement == IF req.placement = JsNull THEN "append" ELSE req.placement
    IN
    IF target = JsNull
    THEN \* fallback: bottom of body
         /\ customEls' = IF NamedIndexes(req.name) = {}
                         THEN Append(customEls, CustomEl(req.name, "body", "body", {req.src}))
                         ELSE customEls
         /\ slots' = slots
    ELSE IF AlreadyNear(req.name, target)
    THEN UNCHANGED <<customEls, slots>>
    ELSE IF placement = "replace"
    THEN /\ customEls' = Append(Without(customEls, target),
                                CustomEl(req.name, "replaced", target, {req.src}))
         /\ slots' = slots \ {target}
    ELSE IF placement = "prepend"
    THEN /\ customEls' = Append(customEls, CustomEl(req.name, "first", target, {req.src}))
         /\ slots' = slots
    ELSE /\ customEls' = Append(customEls, CustomEl(req.name, "last", target, {req.src}))
         /\ slots' = slots

\* if (!customElements.get(name)) { setTimeout(createCustomElement, 500); return; }
MustWait_Never(name) == FALSE

MustWait(name) == regAvailable /\ name \notin registered

\* createCustomElement, run with the queue q of the other pending retries.
CreateCustomElement(req, q) ==
    IF MustWait(req.name)
    THEN /\ retryQ' = Append(q, req)
         /\ UNCHANGED <<customEls, slots>>
    ELSE /\ retryQ' = q
         /\ PlaceCustomElement(req)

\* if (existingScript || existingCustomEl) { ...; return; }
AlreadyInjected(req) == ScriptExists(req.src) \/ QueryCustomEl(req.name) # 0

\* if (!scriptSrc) return;  if (!name) return;
MissingArgument_SrcOnly(req) == req.src = JsNull

MissingArgument(req) == req.src = JsNull \/ req.name = JsNull

\* injectWebComponent(request)
InjectWebComponent(req) ==
    /\ calls.n < MaxInjects
    /\ calls' = [n |-> calls.n + 1,
                 first |-> IF calls.n = 0 THEN req ELSE calls.first,
                 same |-> calls.n = 0 \/ (calls.same /\ req = calls.first)]
    /\ UNCHANGED <<registered, regAvailable, pageScripts>>
    /\ IF MissingArgument(req)
       THEN UNCHANGED <<customEls, slots, retryQ>>
       ELSE IF AlreadyInjected(req)
       THEN LET i == QueryCustomEl(req.name) IN
            /\ customEls' = IF i # 0 /\ req.src \notin customEls[i].scripts
                            THEN [customEls EXCEPT ![i].scripts = @ \cup {req.src}]
                            ELSE customEls
            /\ UNCHANGED <<slots, retryQ>>
       ELSE CreateCustomElement(req, retryQ)

\* A pending setTimeout(createCustomElement, 500) fires.  Timers of equal
\* delay fire in the order they were set.
RetryFires ==
    /\ retryQ # <<>>
    /\ CreateCustomElement(Head(retryQ), Tail(retryQ))
    /\ UNCHANGED <<registered, regAvailable, pageScripts, calls>>
    /\ emitted' = <<>>
    /\ threw' = FALSE
    /\ lastEvent' = EventOf("retry", "-", "createCustomElement",
                            IF MustWait(Head(retryQ).name) THEN "wait" ELSE "place",
                            Head(retryQ).selector, "-", "-", <<>>)
    /\ UNCHANGED <<cfgVars, domVars, watchVars, navVars, panelVars, pageVars>>

\* The page (or a script it loaded) defines the element type.
DefineElement ==
    /\ regAvailable
    /\ \E name \in Names \ registered : registered' = registered \cup {name}
    /\ UNCHANGED <<regAvailable, slots, customEls, pageScripts, retryQ, calls>>
    /\ Quiet
    /\ UNCHANGED <<cfgVars, domVars, watchVars, navVars, panelVars, pageVars>>

\* An inject request arriving on the host channel
\* (chrome.runtime message manipulateDom / injectWebComponent).
InjectRequests ==
    {Request(n, s, sel, pl) : n \in Names \cup {JsNull}, s \in Srcs \cup {JsNull},
                              sel \in InjSelectors, pl \in Placements}

InjectCall ==
    /\ \E req \in InjectRequests : InjectWebComponent(req)
    /\ Quiet
    /\ UNCHANGED <<cfgVars, domVars, watchVars, navVars, panelVars, pageVars>>

InitInject ==
    /\ registered = {}
    /\ regAvailable \in BOOLEAN
    /\ slots = Targets
    /\ customEls = <<>>
    /\ pageScripts \in {{}, {"b.js"}}
    /\ retryQ = <<>>
    /\ calls = [n |-> 0, first |-> NoRequest, same |-> TRUE]

IdleInject ==
    /\ registered = {}
    /\ regAvailable = TRUE
    /\ slots = Targets
    /\ customEls = <<>>
    /\ pageScripts = {}
    /\ retryQ = <<>>
    /\ calls = [n |-> 0, first |-> NoRequest, same |-> TRUE]

-----------------------------------------------------------------------------
(* Content script: the handlers of the window channel.                      *)

MaxBindings == 2

DomActions == {"removeElement", "setText", "setHTML", "setStyle", "addClass",
               "removeClass", "toggleClass", "click", "setInputValue", "other"}

\* The element after the switch of handleDomManipulation / performDomAction.
ApplyDomAction_DefaultSetsText(el, action, value) == [el EXCEPT !.text = value]

ApplyDomAction(el, action, value) ==
    CASE action = "removeElement" -> [el EXCEPT !.exists = FALSE]
      [] action \in {"setText", "setHTML"} -> [el EXCEPT !.text = value]
      [] action = "setStyle"      -> [el EXCEPT !.style = value]
      [] action = "addClass"      -> [el EXCEPT !.cls = TRUE]
      [] action = "removeClass"   -> [el EXCEPT !.cls = FALSE]
      [] action = "toggleClass"   -> [el EXCEPT !.cls = ~@]
      [] action = "setInputValue" -> [el EXCEPT !.value = value]
      [] OTHER                    -> el

\* What the action sets off on the element: el.click() and dispatchEvent are
\* synchronous; replacing the text content queues a mutation record, which
\* the observers get when the task ends.
ActionTriggers(action) ==
    CASE action = "click"         -> <<"click">>
      [] action = "setInputValue" -> <<"input", "change">>
      [] action \in {"setText", "setHTML"} -> <<"mutation">>
      [] OTHER                    -> <<>>

\* handleDomManipulation(selector, action, value)
HandleDomManipulation(selector, action, value) ==
    IF ~Matches(selector)
    THEN /\ UNCHANGED <<els, bindings>>
         /\ emitted' = <<>>
         /\ threw' = FALSE
    ELSE LET el2   == ApplyDomAction(els, action, value)
             notes == FiredAllNotes(bindings, el2, ActionTriggers(action))
         IN /\ els' = el2
            /\ bindings' = FiredAllBindings(bindings, el2, ActionTriggers(action))
            /\ emitted' = Delivered(notes)
            /\ threw' = AnyThrows(notes)

\* handleDomObserver(selector, attribute, eventType, watchId) on the window
\* channel, and the observeDomValue branch of handleManipulateDomRequest on
\* the host channel: the first notification, then the listener or observer.
RegisterWatch(channel, selector, attribute, eventType, watchId) ==
    IF ~Matches(selector)
    THEN /\ UNCHANGED <<els, bindings>>
         /\ emitted' = <<>>
         /\ threw' = FALSE
    ELSE LET attr  == AttributeOrDefault(attribute)
             evt   == EventTypeOrDefault(eventType, attr)
             b     == Binding(watchId, selector, attr, evt, ReadValue(els, attr),
                              channel, iframe)
             first == Notification(b, b.lastValue)
         IN /\ Len(bindings) < MaxBindings
            /\ UNCHANGED els
            /\ emitted' = Delivered(first)
            /\ threw' = AnyThrows(first)
            /\ bindings' = IF AnyThrows(first) THEN bindings ELSE Append(bindings, b)

HandleDomObserver(selector, attribute, eventType, watchId) ==
    RegisterWatch("window", selector, attribute, eventType, watchId)

\* handleGetDomInfo(selector, attribute, requestId)
HandleGetDomInfo(selector, attribute, requestId) ==
    LET value == IF Matches(selector) THEN ReadValue(els, attribute) ELSE JsNull
        out   == IF iframe
                 THEN <<Msg("post", "dom-info-result", getTrustedOrigin, requestId, value)>>
                 ELSE <<>>
    IN /\ UNCHANGED <<els, bindings>>
       /\ emitted' = Delivered(out)
       /\ threw' = AnyThrows(out)

\* The get-tab-info branch of the window listener.
HandleGetTabInfo ==
    LET out == IF iframe
               THEN <<Msg("post", "tab-info", getTrustedOrigin, JsNull, location)>>
               ELSE <<>>
    IN /\ UNCHANGED <<els, bindings>>
       /\ emitted' = Delivered(out)
       /\ threw' = AnyThrows(out)

-----------------------------------------------------------------------------
(* Content script: the window 'message' listener.                           *)

\* The data of a message event: an object with a type and the fields the
\* handlers read, or something that is no object.
Data(type, selector, action, value, attribute, eventType, id, req) ==
    [kind |-> "object", type |-> type, selector |-> selector, action |-> action,
     value |-> value, attribute |-> attribute, eventType |-> eventType,
     id |-> id, req |-> req]

NoObject == [kind |-> "string", type |-> JsNull]

RecognisedTypes == {"injectWebComponent", "manipulate-dom", "start-dom-observer",
                    "observe-dom-value", "get-dom-info", "get-tab-info"}

\* if (event.origin !== trustedOrigin) return;
OriginAccepted_Always(origin) == TRUE

OriginAccepted(origin) == origin = getTrustedOrigin

\* The branches of the chain on event.data.type, content.js:111-151.
WindowBranches(data) ==
    << <<"injectWebComponent", data.type = "injectWebComponent">>,
       <<"handleDomManipulation", data.type = "manipulate-dom">>,
       <<"handleDomObserver", data.type \in {"start-dom-observer", "observe-dom-value"}>>,
       <<"handleGetDomInfo", data.type = "get-dom-info">>,
       <<"tabInfo", data.type = "get-tab-info">> >>

\* The if / else-if chain on event.data.type.
Dispatch(data) ==
    CASE data.type = "injectWebComponent" ->
            /\ InjectWebComponent(data.req)
            /\ emitted' = <<>>
            /\ threw' = FALSE
            /\ UNCHANGED <<els, bindings>>
      [] data.type = "manipulate-dom" ->
            /\ HandleDomManipulation(data.selector, data.action, data.value)
            /\ UNCHANGED injectVars
      [] data.type \in {"start-dom-observer", "observe-dom-value"} ->
            /\ HandleDomObserver(data.selector, data.attribute, data.eventType, data.id)
            /\ UNCHANGED injectVars
      [] data.type = "get-dom-info" ->
            /\ HandleGetDomInfo(data.selector, data.attribute, data.id)
            /\ UNCHANGED injectVars
      [] data.type = "get-tab-info" ->
            /\ HandleGetTabInfo
            /\ UNCHANGED injectVars
      [] OTHER ->
            /\ UNCHANGED <<els, bindings, injectVars>>
            /\ emitted' = <<>>
            /\ threw' = FALSE

\* window.addEventListener('message', ...)
WindowListener(origin, data) ==
    /\ lastEvent' = Event("window", origin, data,
                          IF data.kind # "object" \/ ~OriginAccepted(origin)
                          THEN <<>>
                          ELSE ElseIfChain(Holding(WindowBranches(data))))
    /\ UNCHANGED <<cfgVars, iframe, navVars, panelVars, pageVars>>
    /\ IF data.kind # "object" \/ ~OriginAccepted(origin)
       THEN /\ UNCHANGED <<els, bindings, injectVars>>
            /\ emitted' = <<>>
            /\ threw' = FALSE
       ELSE Dispatch(data)

-----------------------------------------------------------------------------
(* Initial values of the other components.                                  *)

LoadedConfig == (IframeSrcKey :> PanelUrl) @@ (AutoRestoreKey :> DefaultAutoRestoreMinutes)

InitElement ==
    [exists |-> TRUE, value |-> "a", text |-> "a", dataX |-> JsNull,
     cls |-> FALSE, style |-> "a"]

IdleCfg   == extensionConfig = LoadedConfig
IdleDom   == els = InitElement /\ iframe = TRUE
IdleOut   == emitted = <<>> /\ threw = FALSE /\ lastEvent = NoEvent
IdleWatch == bindings = <<>>
IdleNav   ==
    /\ location = "/u1" /\ docTitle = "t1" /\ currentUrl = "/u1" /\ currentTitle = "t1"
    /\ detecting = TRUE /\ popstatePending = FALSE /\ titleTimers = 0
    /\ navHist = [navs |-> 0, notes |-> 0, polled |-> TRUE]

Now0 == 20

EmptyStorage == [sidebarOpen |-> "undefined", sidebarUrl |-> JsNull, lastStateChange |-> 0]

NoPanelHist ==
    [evals |-> {}, userActs |-> FALSE, lost |-> FALSE, mixed |-> FALSE,
     start |-> "-", pair |-> FALSE, wrappers |-> 0, iframes |-> 0, buttons |-> 0]

IdlePanel ==
    /\ now = Now0 /\ storage = EmptyStorage /\ wrapper = "none" /\ btn = "shown"
    /\ ctx = "ready" /\ tasks = EmptyBag /\ otherOpen = FALSE /\ completes = 0
    /\ panelHist = [NoPanelHist EXCEPT !.buttons = 1]

IdlePage == tabQ = <<>> /\ pageQ = <<>> /\ pageIframe = TRUE

-----------------------------------------------------------------------------
(* Specification of the injector.                                           *)

InitInjectSpec ==
    InitInject /\ IdleCfg /\ IdleDom /\ IdleOut /\ IdleWatch /\ IdleNav /\ IdlePanel /\ IdlePage

NextInject == InjectCall \/ RetryFires \/ DefineElement

SpecInject == InitInjectSpec /\ [][NextInject]_vars

\* Number of script tags with this src in the document.
ScriptCount(src) ==
    Cardinality({i \in ElIndexes : src \in customEls[i].scripts})
    + (IF src \in pageScripts THEN 1 ELSE 0)

\* Every request made so far has been carried out: no retry is pending.
InjectSettled == retryQ = <<>>

\* C7: two inject calls with identical arguments (name and scriptSrc given,
\* no script with that src in the page beforehand), once no retry is
\* pending, leave exactly one element of type name and exactly one script
\* tag with that src in the document.
C7_TwiceIdentical ==
    (/\ calls.n = 2 /\ calls.same
     /\ calls.first.name # JsNull /\ calls.first.src # JsNull
     /\ calls.first.src \notin pageScripts
     /\ InjectSettled)
    => /\ Cardinality(NamedIndexes(calls.first.name)) = 1
       /\ ScriptCount(calls.first.src) = 1

\* C8: the injector never creates a second element of one type, nor a
\* second script tag with one src.
C8_NeverDuplicate ==
    /\ \A name \in Names : Cardinality(NamedIndexes(name)) <= 1
    /\ \A src \in Srcs : ScriptCount(src) <= 1

-----------------------------------------------------------------------------
(* Specification of the content script's window channel.                    *)

PanelOrigin   == "https://panel.example"
EvilOrigin    == "https://evil.example"
Origins       == {PanelOrigin, EvilOrigin, ""}

MsgRequest == Request("x-widget", "a.js", "#t1", JsNull)

MsgDomActions == {"removeElement", "setText", "click", "setInputValue", "other"}

\* The messages a frame or the page may send to the window.
MsgData ==
    {Data("manipulate-dom", ElSelector, a, "b", JsNull, JsNull, JsNull, NoRequest) :
        a \in MsgDomActions}
    \cup {Data("manipulate-dom", NoneSelector, "setText", "b", JsNull, JsNull, JsNull,
                NoRequest)}
    \cup {Data(t, ElSelector, JsNull, JsNull, "value", JsNull, "w1", NoRequest) :
        t \in {"start-dom-observer", "observe-dom-value"}}
    \cup {Data("start-dom-observer", NoneSelector, JsNull, JsNull, "value", JsNull, "w1",
                NoRequest)}
    \cup {Data("get-dom-info", sel, JsNull, JsNull, at, JsNull, "r1", NoRequest) :
        sel \in Selectors, at \in {"value"}}
    \cup {Data("get-tab-info", JsNull, JsNull, JsNull, JsNull, JsNull, JsNull, NoRequest),
          Data("injectWebComponent", JsNull, JsNull, JsNull, JsNull, JsNull, JsNull, MsgRequest),
          Data("unknown-type", ElSelector, "setText", "b", "value", JsNull, "w1", MsgRequest),
          NoObject}

WindowMessage == \E origin \in Origins, data \in MsgData : WindowListener(origin, data)

InitMsg ==
    /\ extensionConfig = NoConfig
    /\ els = InitElement
    /\ iframe \in BOOLEAN
    /\ IdleOut /\ IdleWatch /\ IdleInject /\ IdleNav /\ IdlePanel /\ IdlePage

NextMsg == LoadConfig \/ WindowMessage \/ RetryFires \/ DefineElement

SpecMsg == InitMsg /\ [][NextMsg]_vars

\* What a handler of the window channel can change or send.
NoHandlerEffect ==
    /\ UNCHANGED <<els, bindings, injectVars>>
    /\ emitted' = <<>>
    /\ threw' = FALSE

\* C1: a window message whose origin differs from the trusted panel origin
\* is never dispatched: the listener step changes no DOM, registers no
\* watch, injects nothing and sends nothing.
C1_UntrustedNeverDispatched ==
    [][(lastEvent'.at = "window" /\ lastEvent'.origin # getTrustedOrigin) => NoHandlerEffect]_vars

\* An untrusted message of a recognised type has been received while the
\* panel origin was configured.
C1_Witness ==
    /\ lastEvent.origin = EvilOrigin
    /\ lastEvent.type = "manipulate-dom"
    /\ getTrustedOrigin = PanelOrigin

\* Configuration absent (not loaded, key missing) or the panel URL malformed.
ConfigUnusable ==
    \/ extensionConfig = NoConfig
    \/ IframeSrcKey \notin DOMAIN extensionConfig
    \/ ~UrlParses(extensionConfig[IframeSrcKey])

\* C9: while the configuration is absent or malformed the trusted origin is
\* the empty string and every inbound message, whatever origin it declares,
\* is rejected: no handler runs.
C9_NoConfigRejectsAll ==
    [][(lastEvent'.at = "window" /\ ConfigUnusable)
        => (getTrustedOrigin = "" /\ NoHandlerEffect)]_vars

-----------------------------------------------------------------------------
(* Specification of the DOM watch manager.                                  *)

WatchIds == {"w1", "w2"}

\* The (attribute, eventType) pairs of the observe requests.
WatchKinds == {<<"value", JsNull>>, <<"value", "change">>, <<JsNull, JsNull>>}

\* start-dom-observer / observe-dom-value handled by the window listener.
WatchRequestWindow ==
    /\ \E sel \in Selectors, k \in WatchKinds, w \in WatchIds :
          HandleDomObserver(sel, k[1], k[2], w)
    /\ lastEvent' = NoEvent
    /\ UNCHANGED <<cfgVars, iframe, injectVars, navVars, panelVars, pageVars>>

\* manipulateDom / observeDomValue handled by the runtime listener
\* (handleManipulateDomRequest).
WatchRequestHost ==
    /\ \E sel \in Selectors, k \in WatchKinds, w \in WatchIds :
          RegisterWatch("host", sel, k[1], k[2], w)
    /\ lastEvent' = NoEvent
    /\ UNCHANGED <<cfgVars, iframe, injectVars, navVars, panelVars, pageVars>>

\* Something happens to the element: the listeners and observers it sets
\* off run before any other callback.
ElementChanges(el2, triggers) ==
    LET notes == FiredAllNotes(bindings, el2, triggers) IN
    /\ els.exists
    /\ els' = el2
    /\ bindings' = FiredAllBindings(bindings, el2, triggers)
    /\ emitted' = Delivered(notes)
    /\ threw' = AnyThrows(notes)
    /\ lastEvent' = NoEvent
    /\ UNCHANGED <<cfgVars, iframe, injectVars, navVars, panelVars, pageVars>>

\* The user types into the input: the value changes and 'input' fires.
UserTypes == \E v \in Values : ElementChanges([els EXCEPT !.value = v], <<"input">>)

\* The input loses focus: 'change' fires.
UserLeaves == ElementChanges(els, <<"change">>)

\* A page script assigns el.value: no event fires.
PageSetsValue == \E v \in Values : ElementChanges([els EXCEPT !.value = v], <<>>)

\* A page script replaces the element's text: a mutation record is queued.
PageSetsText == \E v \in Values : ElementChanges([els EXCEPT !.text = v], <<"mutation">>)

\* A page script removes the element from the document.
PageRemoves == ElementChanges([els EXCEPT !.exists = FALSE], <<>>)

InitWatch ==
    /\ IdleCfg
    /\ els = InitElement
    /\ iframe \in BOOLEAN
    /\ IdleOut /\ IdleWatch /\ IdleInject /\ IdleNav /\ IdlePanel /\ IdlePage

NextWatch ==
    \/ WatchRequestWindow \/ WatchRequestHost
    \/ UserTypes \/ UserLeaves \/ PageSetsValue \/ PageSetsText \/ PageRemoves

SpecWatch == InitWatch /\ [][NextWatch]_vars

\* Number of domValueChanged notifications for watchId w the last callback
\* sent.
NotesFor(w) ==
    Cardinality({i \in DOMAIN emitted :
                    emitted[i].type = "domValueChanged" /\ emitted[i].id = w})

\* C2: whatever registrations came before, one event or mutation on the
\* watched element produces at most one notification per watchId (only the
\* latest binding of a watchId is active).
C2_OnlyLatestBinding == \A w \in WatchIds : NotesFor(w) <= 1

\* The value the claims expect a read of the element to give: the property
\* of that name where the element has one, else the attribute.
PropertyElseAttribute(el, attribute) ==
    IF attribute = "value" THEN el.value
    ELSE IF attribute = "innerText" THEN el.text
    ELSE IF attribute = "data-x" THEN el.dataX
    ELSE JsNull

\* The step registered a watch; b is its binding.
Registered(b) == Len(bindings') = Len(bindings) + 1 /\ b = bindings'[Len(bindings')]

\* The callback sent exactly the first notification of binding b.
FirstNotificationSent(b) ==
    /\ Len(emitted') = 1
    /\ emitted'[1].type = "domValueChanged"
    /\ emitted'[1].id = b.watchId
    /\ emitted'[1].value = PropertyElseAttribute(els, b.attribute)

ChannelOf(b) == IF b.channel = "window" THEN "post" ELSE "runtime"

\* The change notifications with watchId w and value v the step sent on ch.
ChangeNotes(w, v, ch) ==
    {k \in DOMAIN emitted' :
        /\ emitted'[k].type = "domValueChanged" /\ emitted'[k].ch = ch
        /\ emitted'[k].id = w /\ emitted'[k].value = v}

\* The bindings that observed, in this step, the new value v of their
\* attribute, different from the value they observed before.
Observers(w, v, ch, live) ==
    {i \in DOMAIN bindings :
        /\ bindings[i].watchId = w /\ ChannelOf(bindings[i]) = ch
        /\ bindings'[i].lastValue = v /\ bindings[i].lastValue # v
        /\ v = PropertyElseAttribute(els', bindings[i].attribute)
        /\ live => (bindings[i].channel = "host" \/ bindings[i].hasIframe)}

\* The <<watchId, value, channel>> of the change notifications sent and of
\* the bindings whose observed value changed in this step.
NotedKeys ==
    {<<emitted'[k].id, emitted'[k].value, emitted'[k].ch>> :
        k \in {j \in DOMAIN emitted' : emitted'[j].type = "domValueChanged"}}

ObservedKeys ==
    {<<bindings[i].watchId, bindings'[i].lastValue, ChannelOf(bindings[i])>> :
        i \in {j \in DOMAIN bindings : bindings'[j].lastValue # bindings[j].lastValue}}

\* A step in which listeners or observers may fire, none is registered.
FiringStep == Len(bindings') = Len(bindings)

-----------------------------------------------------------------------------
(* Navigation detector.                                                     *)

Urls   == {"/u1", "/u2", "/u3"}
Titles == {"t1", "t2"}

MaxTitleTimers == 2
MaxCount       == 3

NavMsg(ch, type, target, newUrl, oldUrl, title) ==
    [ch |-> ch, type |-> type, target |-> target, newUrl |-> newUrl,
     oldUrl |-> oldUrl, title |-> title]

\* notifyUrlChange(newUrl, oldUrl): the messages it sends, in order.
NotifyUrlChange_BackgroundOnly(newUrl, oldUrl) ==
    <<NavMsg("runtime", "URL_CHANGED", "", newUrl, oldUrl, docTitle)>>

NotifyUrlChange(newUrl, oldUrl) ==
    <<NavMsg("runtime", "URL_CHANGED", "", newUrl, oldUrl, docTitle)>>
    \o (IF iframe
        THEN <<NavMsg("post", "url-changed", getTrustedOrigin, newUrl, oldUrl, docTitle),
               NavMsg("post", "tab-info", getTrustedOrigin, newUrl, JsNull, docTitle)>>
        ELSE <<>>)

\* if (newUrl !== oldUrl)
UrlDiffers_Always(newUrl, oldUrl) == TRUE

UrlDiffers(newUrl, oldUrl) == newUrl # oldUrl

\* currentUrl = newUrl;  (the assignment before notifyUrlChange)
UpdatedUrl_Kept(newUrl) == currentUrl

UpdatedUrl(newUrl) == newUrl

Saturated(n) == IF n < MaxCount THEN n + 1 ELSE MaxCount

\* The detector is at rest: every signal of the last location change has
\* been delivered and a poll has run since.
AtRest == ~popstatePending /\ titleTimers = 0 /\ navHist.polled

\* The history after this callback: moved is TRUE iff the location changes
\* in it, noted iff it notifies, poll iff it is the polling timer.
NavHistAfter(moved, noted, poll) ==
    LET navs  == IF ~moved THEN navHist.navs
                 ELSE IF AtRest THEN 1 ELSE Saturated(navHist.navs)
        base  == IF moved /\ AtRest THEN 0 ELSE navHist.notes
        notes == IF noted THEN Saturated(base) ELSE base
    IN [navs |-> navs, notes |-> notes,
        polled |-> IF poll THEN TRUE ELSE IF moved THEN FALSE ELSE navHist.polled]

\* The step all four signals share: compare the location with oldUrl,
\* update currentUrl and notify.
CompareAndNotify(newUrl, oldUrl, moved, poll) ==
    IF UrlDiffers(newUrl, oldUrl)
    THEN /\ currentUrl' = UpdatedUrl(newUrl)
         /\ emitted' = Delivered(NotifyUrlChange(newUrl, oldUrl))
         /\ threw' = AnyThrows(NotifyUrlChange(newUrl, oldUrl))
         /\ navHist' = NavHistAfter(moved, TRUE, poll)
    ELSE /\ currentUrl' = currentUrl
         /\ emitted' = <<>>
         /\ threw' = FALSE
         /\ navHist' = NavHistAfter(moved, FALSE, poll)

\* The signal handler of the detector that ran in a step.
Signal(kind) == EventOf("detector", "-", kind, "-", "-", "-", "-", <<>>)

\* let currentUrl = window.location.href;  (content.js:548, run when the
\* content script is evaluated)
InitialUrl_Fixed == "/u1"

InitialUrl == location

\* initializeUrlDetection, after the configuration has been loaded.
InitializeUrlDetection ==
    /\ ~detecting
    /\ detecting' = TRUE
    /\ currentTitle' = docTitle
    /\ Quiet
    /\ UNCHANGED <<location, docTitle, currentUrl, popstatePending, titleTimers, navHist>>
    /\ UNCHANGED <<cfgVars, domVars, watchVars, injectVars, panelVars, pageVars>>

\* The wrappers of history.pushState / history.replaceState, called with a
\* URL: the original call and the comparison are one synchronous step.
HistoryWrapper ==
    /\ detecting
    /\ \E u \in Urls :
          /\ location' = u
          /\ CompareAndNotify(u, currentUrl, u # location, FALSE)
    /\ lastEvent' = Signal("history")
    /\ UNCHANGED <<docTitle, currentTitle, detecting, popstatePending, titleTimers>>
    /\ UNCHANGED <<cfgVars, domVars, watchVars, injectVars, panelVars, pageVars>>

\* The page changes its location without the wrappers (its own history
\* object, a fragment, back / forward); a popstate event may follow.
PageNavigates ==
    /\ \E u \in Urls \ {location}, pop \in BOOLEAN :
          /\ location' = u
          /\ popstatePending' = (popstatePending \/ (pop /\ detecting))
    /\ navHist' = NavHistAfter(TRUE, FALSE, FALSE)
    /\ Quiet
    /\ UNCHANGED <<docTitle, currentUrl, currentTitle, detecting, titleTimers>>
    /\ UNCHANGED <<cfgVars, domVars, watchVars, injectVars, panelVars, pageVars>>

\* The popstate listener.
PopstateListener ==
    /\ popstatePending
    /\ popstatePending' = FALSE
    /\ CompareAndNotify(location, currentUrl, FALSE, FALSE)
    /\ lastEvent' = Signal("popstate")
    /\ UNCHANGED <<location, docTitle, currentTitle, detecting, titleTimers>>
    /\ UNCHANGED <<cfgVars, domVars, watchVars, injectVars, panelVars, pageVars>>

\* The setInterval callback of setupUrlPolling.
UrlPolling ==
    /\ detecting
    /\ CompareAndNotify(location, currentUrl, FALSE, TRUE)
    /\ lastEvent' = Signal("poll")
    /\ UNCHANGED <<location, docTitle, currentTitle, detecting, popstatePending, titleTimers>>
    /\ UNCHANGED <<cfgVars, domVars, watchVars, injectVars, panelVars, pageVars>>

\* The page sets document.title; the title observer runs when the task
\* ends and sets the 100 ms timer if the title is new to it.
TitleChanges ==
    /\ \E t \in Titles \ {docTitle} :
          /\ docTitle' = t
          /\ IF detecting /\ t # currentTitle
             THEN /\ titleTimers < MaxTitleTimers
                  /\ currentTitle' = t
                  /\ titleTimers' = titleTimers + 1
             ELSE UNCHANGED <<currentTitle, titleTimers>>
    /\ Quiet
    /\ UNCHANGED <<location, currentUrl, detecting, popstatePending, navHist>>
    /\ UNCHANGED <<cfgVars, domVars, watchVars, injectVars, panelVars, pageVars>>

\* The 100 ms timer of the title observer.
TitleTimerFires ==
    /\ titleTimers > 0
    /\ titleTimers' = titleTimers - 1
    /\ CompareAndNotify(location, currentUrl, FALSE, FALSE)
    /\ lastEvent' = Signal("titleTimer")
    /\ UNCHANGED <<location, docTitle, currentTitle, detecting, popstatePending>>
    /\ UNCHANGED <<cfgVars, domVars, watchVars, injectVars, panelVars, pageVars>>

InitNav ==
    /\ IdleCfg
    /\ els = InitElement
    /\ iframe \in BOOLEAN
    /\ IdleOut /\ IdleWatch /\ IdleInject /\ IdlePanel /\ IdlePage
    /\ location \in Urls /\ currentUrl = location
    /\ docTitle = "t1" /\ currentTitle = "t1"
    /\ detecting = FALSE /\ popstatePending = FALSE /\ titleTimers = 0
    /\ navHist = [navs |-> 0, notes |-> 0, polled |-> TRUE]

NextNav ==
    \/ InitializeUrlDetection \/ HistoryWrapper \/ PageNavigates
    \/ PopstateListener \/ UrlPolling \/ TitleChanges \/ TitleTimerFires

SpecNav == InitNav /\ [][NextNav]_vars

\* C3: when the location has changed once since the detector was last at
\* rest and all signals of that change (history wrapper, popstate, title
\* re-check, poll) have been delivered, in whatever order, exactly one
\* notification has been emitted and currentUrl is the location.
C3_OneNotificationPerNavigation ==
    (AtRest /\ navHist.navs = 1) => (navHist.notes = 1 /\ currentUrl = location)

\* One navigation signalled by popstate, a title change and the poll, all
\* delivered.
C3_Witness ==
    /\ AtRest /\ navHist.navs = 1 /\ navHist.notes = 1
    /\ currentUrl = location /\ location # "/u1" /\ docTitle = "t2"
    /\ detecting


-----------------------------------------------------------------------------
(* The panel visibility state machine: content.js:1187-1278, the            *)
(* checkSidebarState handler content.js:170-185 and the load-complete       *)
(* check of the background script.  Time is counted in minutes; the timers  *)
(* (50 to 500 ms), the storage requests and the tab messages are pending    *)
(* tasks that run one at a time.                                            *)

MaxElapsed == 2
MaxCompletes == 1
InitAges == {1, 4, 5, 10}
FiveMinutes == 5
OtherUrl == "/other"

NoSnap == [open |-> "-", last |-> 0, dirty |-> FALSE]

Task(kind, snap) == [kind |-> kind, snap |-> snap]

Add(bag, t) == bag (+) SetToBag({t})

Remove(bag, t) == bag (-) SetToBag({t})

Pending(kind) == {t \in BagToSet(tasks) : t.kind = kind}

\* The context a task runs in: the background worker or the tab.
ContextOf(kind) == IF kind \in {"bg500", "bgGet", "bgCb"} THEN "bg" ELSE "tab"

\* A write by another context makes the result of a read out of date.
Dirtied(t, writer) ==
    IF t.snap # NoSnap /\ ContextOf(t.kind) # writer
    THEN [t EXCEPT !.snap.dirty = TRUE]
    ELSE t

RECURSIVE SumCopies(_, _)
SumCopies(S, bag) ==
    IF S = {} THEN 0
    ELSE LET t == CHOOSE x \in S : TRUE
         IN CopiesIn(t, bag) + SumCopies(S \ {t}, bag)

MarkDirty(bag, writer) ==
    LET after == {Dirtied(t, writer) : t \in BagToSet(bag)}
    IN [x \in after |->
          SumCopies({t \in BagToSet(bag) : Dirtied(t, writer) = x}, bag)]

\* chrome.storage.local.get(['sidebarOpen', 'lastStateChange'], ...)
StorageGet == [open |-> storage.sidebarOpen, last |-> storage.lastStateChange,
               dirty |-> FALSE]

\* result.lastStateChange && result.lastStateChange > Date.now() - minutes
WasRecentlyChanged(last, minutes) == last # 0 /\ last > now - minutes

Evaluate_ResetUnlessFresh(snap, minutes) ==
    IF snap.open = "true" /\ WasRecentlyChanged(snap.last, minutes) THEN "openFresh"
    ELSE "openStale"

Evaluate(snap, minutes) ==
    IF snap.open = "true" /\ WasRecentlyChanged(snap.last, minutes) THEN "openFresh"
    ELSE IF snap.open = "true" THEN "openStale"
    ELSE "closed"

\* The record saveSidebarState(isOpen) writes.
SavedState(isOpen) ==
    [sidebarOpen |-> isOpen, sidebarUrl |-> location, lastStateChange |-> now]

PanelRest ==
    UNCHANGED <<els, watchVars, injectVars, location, docTitle,
                currentUrl, popstatePending, titleTimers, navHist, pageVars>>

PanelFrame == Quiet /\ PanelRest

\* chrome.storage.local.set of a whole record.
FullWrite(rec, writer, rest, hist) ==
    /\ storage' = rec
    /\ tasks' = MarkDirty(rest, writer)
    /\ panelHist' = [hist EXCEPT !.mixed = FALSE]

NoWrite(rest, hist) ==
    /\ storage' = storage
    /\ tasks' = rest
    /\ panelHist' = hist

ButtonShown(display) == IF btn = "none" THEN btn ELSE display

\* The panel is open, or its first opening is under way (the 50 ms timer
\* of toggleCustomSidebar is pending).
PanelOpen == wrapper = "open" \/ Pending("open50") # {}

\* History of the calls of toggleCustomSidebar: start is the state of the
\* panel before the first call of a pair of consecutive calls, pair is
\* TRUE once the second call of the pair has run.
Toggled(hist) ==
    IF hist.start = "-" \/ hist.pair
    THEN [hist EXCEPT !.start = IF PanelOpen THEN "open" ELSE "closed",
                      !.pair = FALSE]
    ELSE [hist EXCEPT !.pair = TRUE]

\* Another transition of the panel ends the pair.
NotToggled(hist) == [hist EXCEPT !.start = "-", !.pair = FALSE]

\* document.getElementById(id), for an id the document holds n times.
ElementExists_Never(n) == FALSE

ElementExists(n) == n > 0

\* addSidebarToggleButton(), content.js:697-796: the elements after it.
AddSidebarToggleButton(hist) ==
    IF ElementExists(hist.buttons) THEN hist
    ELSE [hist EXCEPT !.buttons = @ + 1]

\* injectCustomSidebar(), content.js:799-969: the elements after it.
InjectCustomSidebar(hist) ==
    IF ElementExists(hist.wrappers) THEN hist
    ELSE [hist EXCEPT !.wrappers = @ + 1, !.iframes = @ + 1]

\* toggleCustomSidebar(), content.js:1187-1218
ToggleCustomSidebar(rest, hist) ==
    IF ~ElementExists(hist.wrappers)
    THEN /\ wrapper' = "hidden"
         /\ iframe' = TRUE
         /\ btn' = btn
         /\ NoWrite(Add(rest, Task("open50", NoSnap)), Toggled(InjectCustomSidebar(hist)))
    ELSE IF wrapper = "open"
    THEN /\ wrapper' = "hidden"
         /\ iframe' = iframe
         /\ btn' = ButtonShown("shown")
         /\ FullWrite(SavedState("false"), "tab", rest, Toggled(hist))
    ELSE /\ wrapper' = "open"
         /\ iframe' = iframe
         /\ btn' = ButtonShown("hidden")
         /\ FullWrite(SavedState("true"), "tab", rest, Toggled(hist))

\* The content script is evaluated: its listeners are registered and the
\* configuration is requested.
ContentStarts ==
    /\ ctx = "none"
    /\ ctx' = "started"
    /\ currentUrl' = InitialUrl
    /\ UNCHANGED <<extensionConfig, iframe, currentTitle, detecting, now, storage,
                   wrapper, btn, tasks, otherOpen, completes, panelHist>>
    /\ Quiet
    /\ UNCHANGED <<els, watchVars, injectVars, location, docTitle,
                   popstatePending, titleTimers, navHist, pageVars>>

\* initializeExtension after the configuration has arrived.
ContentInitWith(config) ==
    /\ ctx = "started"
    /\ ctx' = "ready"
    /\ extensionConfig' = config
    /\ detecting' = TRUE
    /\ currentTitle' = docTitle
    /\ btn' = "shown"
    /\ panelHist' = AddSidebarToggleButton(panelHist)
    /\ tasks' = Add(tasks, Task("restoreTimer", NoSnap))
    /\ UNCHANGED <<iframe, now, storage, wrapper, otherOpen, completes>>
    /\ PanelFrame

ContentInit == ContentInitWith(LoadedConfig)

\* A timer that only issues a storage request: setTimeout(restoreSidebarState,
\* 100) in the tab, the 500 ms timer of the background script.
TimerIssuesGet(timer, get) ==
    /\ \E t \in Pending(timer) :
          tasks' = Add(Remove(tasks, t), Task(get, NoSnap))
    /\ UNCHANGED <<extensionConfig, iframe, currentTitle, detecting, now, storage,
                   wrapper, btn, ctx, otherOpen, completes, panelHist>>
    /\ PanelFrame

RestoreTimerFires == TimerIssuesGet("restoreTimer", "restoreGet")

Bg500Fires == TimerIssuesGet("bg500", "bgGet")

\* The storage serves a pending get: its callback will see this result.
StorageServes(get, callback) ==
    /\ \E t \in Pending(get) :
          tasks' = Add(Remove(tasks, t), Task(callback, StorageGet))
    /\ UNCHANGED <<extensionConfig, iframe, currentTitle, detecting, now, storage,
                   wrapper, btn, ctx, otherOpen, completes, panelHist>>
    /\ PanelFrame

StorageRead ==
    \/ StorageServes("restoreGet", "restoreCb")
    \/ StorageServes("checkGet", "checkCb")
    \/ StorageServes("bgGet", "bgCb")

\* The callback of an evaluator in the tab: restoreSidebarState with its
\* configured window and 250 ms timer, the checkSidebarState handler with
\* five minutes and its 100 ms timer.
\* The evaluation a callback made: of which result.sidebarOpen (kept in
\* the attribute field), with which outcome.
Evaluated(callback, snap, eval) ==
    EventOf(callback, "-", "evaluate", eval, "-", snap.open, "-", <<>>)

EvaluatorCallback(callback, minutes, timer) ==
    /\ \E t \in Pending(callback) :
          LET rest == Remove(tasks, t)
              eval == Evaluate(t.snap, minutes)
              hist == [panelHist EXCEPT !.evals = @ \cup {eval}]
          IN /\ lastEvent' = Evaluated(callback, t.snap, eval)
             /\ IF eval = "openFresh"
                THEN NoWrite(Add(rest, Task(timer, NoSnap)), hist)
                ELSE IF eval = "openStale"
                THEN FullWrite(SavedState("false"), "tab", rest,
                               [hist EXCEPT !.lost = @ \/ t.snap.dirty])
                ELSE NoWrite(rest, hist)
    /\ UNCHANGED <<extensionConfig, iframe, currentTitle, detecting, now,
                   wrapper, btn, ctx, otherOpen, completes>>
    /\ emitted' = <<>>
    /\ threw' = FALSE
    /\ PanelRest

RestoreCallback ==
    EvaluatorCallback("restoreCb", getConfig(AutoRestoreKey, DefaultAutoRestoreMinutes),
                      "restore250")

CheckCallback == EvaluatorCallback("checkCb", FiveMinutes, "check100")

\* The 250 ms timer of restoreSidebarState.
Restore250Fires ==
    /\ \E t \in Pending("restore250") :
          IF wrapper = "none"
          THEN ToggleCustomSidebar(Remove(tasks, t), panelHist)
          ELSE /\ NoWrite(Remove(tasks, t), panelHist)
               /\ UNCHANGED <<iframe, wrapper, btn>>
    /\ UNCHANGED <<extensionConfig, currentTitle, detecting, now, ctx, otherOpen,
                   completes>>
    /\ PanelFrame

\* The 100 ms timer of the checkSidebarState handler.
Check100Fires ==
    /\ \E t \in Pending("check100") : ToggleCustomSidebar(Remove(tasks, t), panelHist)
    /\ UNCHANGED <<extensionConfig, currentTitle, detecting, now, ctx, otherOpen,
                   completes>>
    /\ PanelFrame

\* The 50 ms timer of the first opening, content.js:1194-1199.
Open50Fires ==
    /\ \E t \in Pending("open50") :
          FullWrite(SavedState("true"), "tab", Remove(tasks, t), panelHist)
    /\ wrapper' = "open"
    /\ btn' = ButtonShown("hidden")
    /\ UNCHANGED <<extensionConfig, iframe, currentTitle, detecting, now, ctx,
                   otherOpen, completes>>
    /\ PanelFrame

\* The user clicks the toggle button, content.js:774-776.
UserClicksToggle ==
    /\ ctx = "ready"
    /\ btn = "shown"
    /\ ToggleCustomSidebar(tasks, [panelHist EXCEPT !.userActs = TRUE])
    /\ UNCHANGED <<extensionConfig, currentTitle, detecting, now, ctx, otherOpen,
                   completes>>
    /\ PanelFrame

\* The user clicks the close button of the open panel, content.js:936-943.
UserClicksClose ==
    /\ wrapper = "open"
    /\ wrapper' = "hidden"
    /\ btn' = ButtonShown("shown")
    /\ FullWrite(SavedState("false"), "tab", tasks,
                 NotToggled([panelHist EXCEPT !.userActs = TRUE]))
    /\ UNCHANGED <<extensionConfig, iframe, currentTitle, detecting, now, ctx,
                   otherOpen, completes>>
    /\ PanelFrame

TabId == "tab1"

\* chrome.runtime.sendMessage({type: "SIDEBAR_UPDATE_URL", url, title, tabId})
UrlUpdate(url, title, tabId) ==
    [ch |-> "runtime", type |-> "SIDEBAR_UPDATE_URL", target |-> "", id |-> tabId,
     value |-> url, title |-> title]

\* What chrome.tabs.onUpdated reports: the load is complete, the URL
\* changed, or something else changed (the title).
TabChanges == {"complete", "url", "title"}

\* The chrome.tabs.onUpdated listener of the background script,
\* part_000:84-124.
OnUpdated(change) ==
    /\ tasks' = IF change = "complete" THEN Add(tasks, Task("bg500", NoSnap)) ELSE tasks
    /\ emitted' = IF change \in {"url", "complete"}
                  THEN <<UrlUpdate(location, docTitle, TabId)>>
                  ELSE <<>>
    /\ threw' = FALSE
    /\ lastEvent' = EventOf("background", "-", "onUpdated", change, "-", "-", "-", <<>>)

\* The chrome.tabs.onActivated listener of the background script,
\* part_000:127-137.
OnActivated ==
    /\ tasks' = tasks
    /\ emitted' = <<UrlUpdate(location, docTitle, TabId)>>
    /\ threw' = FALSE
    /\ lastEvent' = EventOf("background", "-", "onActivated", "-", "-", "-", "-", <<>>)

\* chrome.tabs.onUpdated with status 'complete' for the tab.
BgLoadComplete ==
    /\ completes < MaxCompletes
    /\ completes' = completes + 1
    /\ OnUpdated("complete")
    /\ UNCHANGED <<extensionConfig, iframe, currentTitle, detecting, now, storage,
                   wrapper, btn, ctx, otherOpen, panelHist>>
    /\ PanelRest

\* chrome.tabs.onUpdated for another change of the tab.
BgTabUpdated ==
    /\ \E change \in TabChanges \ {"complete"} : OnUpdated(change)
    /\ UNCHANGED <<extensionConfig, iframe, currentTitle, detecting, now, storage,
                   wrapper, btn, ctx, otherOpen, completes, panelHist>>
    /\ PanelRest

\* The user switches to the tab.
BgTabActivated ==
    /\ OnActivated
    /\ UNCHANGED <<extensionConfig, iframe, currentTitle, detecting, now, storage,
                   wrapper, btn, ctx, otherOpen, completes, panelHist>>
    /\ PanelRest

\* The callback of the background script's storage request.
BgCallback ==
    /\ \E t \in Pending("bgCb") :
          LET rest == Remove(tasks, t)
              eval == Evaluate(t.snap, FiveMinutes)
          IN /\ lastEvent' = Evaluated("bgCb", t.snap, eval)
             /\ IF eval = "openFresh"
                THEN NoWrite(Add(rest, Task("checkMsg", NoSnap)), panelHist)
                ELSE IF eval = "openStale"
                THEN /\ storage' = [storage EXCEPT !.sidebarOpen = "false"]
                     /\ tasks' = MarkDirty(rest, "bg")
                     /\ panelHist' = [panelHist EXCEPT !.mixed = TRUE,
                                                       !.lost = @ \/ t.snap.dirty]
                ELSE NoWrite(rest, panelHist)
    /\ UNCHANGED <<extensionConfig, iframe, currentTitle, detecting, now,
                   wrapper, btn, ctx, otherOpen, completes>>
    /\ emitted' = <<>>
    /\ threw' = FALSE
    /\ PanelRest

\* The handler of the rejected send, part_000:101-104: it writes a line to
\* the console and leaves the persisted record alone.
CatchHandler_Resets(st) == [st EXCEPT !.sidebarOpen = "false"]

CatchHandler(st) == st

\* The checkSidebarState message reaches the tab: without a content script
\* the send fails and the failure is swallowed; otherwise the handler asks
\* the storage if there is no panel.
CheckMsgDelivered ==
    /\ \E t \in Pending("checkMsg") :
          tasks' = IF ctx # "none" /\ wrapper = "none"
                   THEN Add(Remove(tasks, t), Task("checkGet", NoSnap))
                   ELSE Remove(tasks, t)
    /\ storage' = IF ctx = "none" THEN CatchHandler(storage) ELSE storage
    /\ lastEvent' = EventOf("send", "-", "checkSidebarState",
                            IF ctx = "none" THEN "rejected" ELSE "received",
                            "-", "-", "-", <<>>)
    /\ emitted' = <<>>
    /\ threw' = FALSE
    /\ UNCHANGED <<extensionConfig, iframe, currentTitle, detecting, now,
                   wrapper, btn, ctx, otherOpen, completes, panelHist>>
    /\ PanelRest

\* The panel of another tab is toggled: the same saveSidebarState, run in
\* that tab.
OtherTabToggle ==
    /\ otherOpen' = ~otherOpen
    /\ FullWrite([sidebarOpen |-> IF otherOpen THEN "false" ELSE "true",
                  sidebarUrl |-> OtherUrl, lastStateChange |-> now],
                 "other", tasks, panelHist)
    /\ UNCHANGED <<extensionConfig, iframe, currentTitle, detecting, now,
                   wrapper, btn, ctx, completes>>
    /\ PanelFrame

\* A minute passes.
Tick ==
    /\ now < Now0 + MaxElapsed
    /\ now' = now + 1
    /\ UNCHANGED <<extensionConfig, iframe, currentTitle, detecting, storage,
                   wrapper, btn, ctx, tasks, otherOpen, completes, panelHist>>
    /\ PanelFrame

InitStorage ==
    {EmptyStorage} \cup
    {[sidebarOpen |-> o, sidebarUrl |-> u, lastStateChange |-> Now0 - age] :
        o \in {"true", "false"}, u \in {"/u1", OtherUrl}, age \in InitAges}

InitPanel ==
    /\ extensionConfig = NoConfig
    /\ els = InitElement /\ iframe = FALSE
    /\ IdleOut /\ IdleWatch /\ IdleInject
    /\ location = "/u1" /\ docTitle = "t1" /\ currentUrl = "/u1" /\ currentTitle = "t1"
    /\ detecting = FALSE /\ popstatePending = FALSE /\ titleTimers = 0
    /\ navHist = [navs |-> 0, notes |-> 0, polled |-> TRUE]
    /\ now = Now0
    /\ storage \in InitStorage
    /\ wrapper = "none" /\ btn = "none" /\ ctx = "none"
    /\ tasks = EmptyBag
    /\ otherOpen = FALSE
    /\ completes = 0
    /\ panelHist = NoPanelHist
    /\ IdlePage

NextPanel ==
    \/ ContentStarts \/ ContentInit \/ RestoreTimerFires \/ StorageRead
    \/ RestoreCallback \/ Restore250Fires \/ Open50Fires
    \/ BgLoadComplete \/ BgTabUpdated \/ BgTabActivated
    \/ Bg500Fires \/ BgCallback \/ CheckMsgDelivered
    \/ CheckCallback \/ Check100Fires
    \/ UserClicksToggle \/ UserClicksClose \/ OtherTabToggle \/ Tick

SpecPanel == InitPanel /\ [][NextPanel]_vars

Settled == ctx = "ready" /\ tasks = EmptyBag

\* C4: once the restore evaluations of a page load have run and the user
\* has not touched the panel, the panel is open if and only if stored
\* state was read as open and fresh.
C4_OpenIffReadOpenAndFresh ==
    (Settled /\ ~panelHist.userActs /\ panelHist.evals # {}) =>
        /\ (panelHist.evals = {"openFresh"} => wrapper = "open")
        /\ ("openFresh" \notin panelHist.evals => wrapper # "open")

\* C5: every change of the persisted panel state writes the three fields
\* together, with lastStateChange set to the time of the write.
C5_EveryWriteWholeAndStamped ==
    [][storage' # storage =>
          /\ storage'.sidebarOpen \in {"true", "false"}
          /\ storage'.sidebarUrl # JsNull
          /\ storage'.lastStateChange = now]_vars

\* C6: a stale reset decided from a read never overwrites a record that
\* another context wrote after that read, and the record never holds a
\* combination of fields that no single writer wrote.
C6_NoLostUpdateNoMixedRecord == ~panelHist.lost /\ ~panelHist.mixed

\* A call of toggleCustomSidebar happened in this step.
ToggleStep ==
    panelHist'.start # panelHist.start \/ (panelHist'.pair /\ ~panelHist.pair)

\* C16: two toggles issued one after the other return the panel to the
\* state it had before the first; a toggle without panel DOM creates it; and
\* every transition to open or to closed persists the whole record with
\* isOpen equal to the new state and the time of the transition.
C16_TogglePairReturnsAndPersists ==
    [][/\ panelHist'.pair => (PanelOpen' <=> panelHist'.start = "open")
       /\ (ToggleStep /\ wrapper = "none") => (wrapper' # "none" /\ iframe')
       /\ (wrapper' = "open" /\ wrapper # "open") => storage' = SavedState("true")
       /\ (wrapper = "open" /\ wrapper' # "open") => storage' = SavedState("false")]_vars

\* The background script started a restore evaluation in this step: the
\* 500 ms timer that reads the persisted state.
RestoreEvaluationStarted ==
    CopiesIn(Task("bg500", NoSnap), tasks') = CopiesIn(Task("bg500", NoSnap), tasks) + 1

\* C17: the background script starts the restore evaluation when the load
\* of a tab completes and when a tab is activated.
C17_EvaluatedOnCompleteAndActivation ==
    [][(/\ lastEvent'.at = "background"
        /\ \/ lastEvent'.type = "onActivated"
           \/ lastEvent'.type = "onUpdated" /\ lastEvent'.action = "complete")
          => RestoreEvaluationStarted]_vars

-----------------------------------------------------------------------------
(* The sidebar page script, content.js:1286-1451: the 'message' listeners   *)
(* that forward iframe requests to the tab, the relays back to the iframe,  *)
(* and the tab's runtime listener that carries the requests out.            *)

MaxInFlight == 1
MaxRelayed == 2

\* A chrome.tabs.sendMessage request of type manipulateDom.  reply is the
\* requestId of the callback waiting for the response, if there is one.
HostRequest(action, selector, value, attribute, eventType, watchId, req, reply) ==
    [action |-> action, selector |-> selector, value |-> value,
     attribute |-> attribute, eventType |-> eventType, watchId |-> watchId,
     req |-> req, reply |-> reply]

NoReply == "<none>"

\* What the listeners of the sidebar page forward to the tab for one event.
Forwarded(data) ==
    CASE data.type = "manipulate-dom" ->
            <<HostRequest(data.action, data.selector, data.value, JsNull, JsNull,
                          JsNull, NoRequest, NoReply)>>
      [] data.type = "injectWebComponent" ->
            <<HostRequest("injectWebComponent", data.req.selector, JsNull, JsNull,
                          JsNull, JsNull, data.req, NoReply)>>
      [] data.type = "start-dom-observer" ->
            <<HostRequest("observeDomValue", data.selector, JsNull, data.attribute,
                          data.eventType, data.id, NoRequest, NoReply)>>
      [] data.type = "observe-dom-value" ->
            <<HostRequest("observeDomValue", data.selector, JsNull, data.attribute,
                          data.eventType, JsNull, NoRequest, NoReply)>>
      [] data.type = "get-dom-info" ->
            <<HostRequest("getDomInfo", data.selector, JsNull, data.attribute,
                          JsNull, JsNull, NoRequest, data.id)>>
      [] OTHER -> <<>>

\* iframe.contentWindow.postMessage(message, '*')
PostToPanel(type, id, value) ==
    IF pageIframe THEN <<Msg("post", type, "*", id, value)>> ELSE <<>>

\* The 'message' listeners of the sidebar page: none of them looks at
\* event.origin.
SidebarPageAccepts(origin, data) == data.kind = "object"

\* The 'message' listeners of the sidebar page, each with one condition on
\* event.data.type: every listener whose condition holds runs.
PageBranches(data) ==
    << <<"manipulate-dom", data.type = "manipulate-dom">>,
       <<"injectWebComponent", data.type = "injectWebComponent">>,
       <<"get-tab-info", data.type = "get-tab-info">>,
       <<"start-dom-observer", data.type = "start-dom-observer">>,
       <<"get-dom-info", data.type = "get-dom-info">>,
       <<"observe-dom-value", data.type = "observe-dom-value">> >>

SidebarPageListeners(origin, data) ==
    /\ lastEvent' = Event("page", origin, data,
                          IF SidebarPageAccepts(origin, data)
                          THEN Holding(PageBranches(data)) ELSE <<>>)
    /\ IF SidebarPageAccepts(origin, data)
       THEN /\ tabQ' = tabQ \o Forwarded(data)
            /\ Len(tabQ') <= MaxInFlight
            /\ emitted' = IF data.type = "get-tab-info"
                          THEN PostToPanel("tab-info", JsNull, location)
                          ELSE <<>>
       ELSE /\ tabQ' = tabQ
            /\ emitted' = <<>>
    /\ threw' = FALSE
    /\ UNCHANGED <<cfgVars, domVars, watchVars, injectVars, navVars, panelVars,
                   pageQ, pageIframe>>

\* The runtime messages among the messages sent, in the order of sending.
RuntimeMessages(msgs) == SelectSeq(msgs, LAMBDA m : m.ch = "runtime")

\* chrome.runtime.sendMessage: the messages of one sender reach a listener
\* in the order of sending, after those sent before.
Enqueued_InFront(q, msgs) == msgs \o q

Enqueued(q, msgs) == q \o msgs

\* The response the sender's callback gets: the tab's listener never calls
\* sendResponse for manipulateDom, so the callback runs with undefined.
Response(request) ==
    IF request.reply = NoReply THEN <<>>
    ELSE <<Msg("response", "getDomInfo", "", request.reply, JsNull)>>

\* handleManipulateDomRequest(request), content.js:193-251, and
\* performDomAction.
HandleManipulateDomRequest(request) ==
    CASE request.action = "observeDomValue" ->
            /\ RegisterWatch("host", request.selector, request.attribute,
                             request.eventType, request.watchId)
            /\ UNCHANGED injectVars
      [] request.action = "injectWebComponent" ->
            /\ InjectWebComponent(request.req)
            /\ emitted' = <<>>
            /\ threw' = FALSE
            /\ UNCHANGED <<els, bindings>>
      [] OTHER ->
            /\ HandleDomManipulation(request.selector, request.action, request.value)
            /\ UNCHANGED injectVars

\* The tab's chrome.runtime.onMessage listener gets a forwarded request.
TabReceives ==
    /\ tabQ # <<>>
    /\ HandleManipulateDomRequest(Head(tabQ))
    /\ tabQ' = Tail(tabQ)
    /\ pageQ' = Enqueued(pageQ, RuntimeMessages(emitted') \o Response(Head(tabQ)))
    /\ Len(pageQ') <= MaxRelayed
    /\ lastEvent' = NoEvent
    /\ UNCHANGED <<cfgVars, iframe, navVars, panelVars, pageIframe>>

\* The chrome.runtime.onMessage listeners of the sidebar page,
\* content.js:1373-1386 and 1424-1429.
PageRuntimeBranches(m) ==
    << <<"domValueChangedRelay", m.type = "domValueChanged" /\ m.id # JsNull>>,
       <<"sidebarUpdateUrl", m.type = "SIDEBAR_UPDATE_URL">> >>

\* The sidebar page gets a runtime message or a response: the relay of
\* domValueChanged (only with a watchId), the callback of get-dom-info, and
\* the SIDEBAR_UPDATE_URL listener, whose call of postToIframe, a function
\* that is defined nowhere, throws a ReferenceError.
PageReceives ==
    /\ pageQ # <<>>
    /\ pageQ' = Tail(pageQ)
    /\ LET m   == Head(pageQ)
           ran == IF m.ch = "response" THEN <<>> ELSE Holding(PageRuntimeBranches(m))
       IN /\ emitted' = IF m.ch = "response"
                        THEN PostToPanel("dom-info-result", m.id, m.value)
                        ELSE IF m.type = "domValueChanged" /\ m.id # JsNull
                        THEN PostToPanel("domValueChanged", m.id, m.value)
                        ELSE <<>>
          /\ threw' = (m.ch # "response" /\ m.type = "SIDEBAR_UPDATE_URL")
          /\ lastEvent' = IF m.ch = "response" THEN NoEvent
                          ELSE EventOf("pageRuntime", "-", m.type, "-", "-", "-", m.id, ran)
    /\ UNCHANGED <<cfgVars, domVars, watchVars, injectVars, navVars, panelVars,
                   tabQ, pageIframe>>

\* A message event on the window of the sidebar page.
PageData ==
    {Data("manipulate-dom", ElSelector, a, "b", JsNull, JsNull, JsNull, NoRequest) :
        a \in {"setInputValue", "removeElement"}}
    \cup {Data(t, ElSelector, JsNull, JsNull, "value", JsNull, "w1", NoRequest) :
        t \in {"start-dom-observer", "observe-dom-value", "get-dom-info"}}
    \cup {Data("get-tab-info", JsNull, JsNull, JsNull, JsNull, JsNull, JsNull, NoRequest),
          Data("injectWebComponent", JsNull, JsNull, JsNull, JsNull, JsNull, JsNull, MsgRequest),
          NoObject}

SidebarPageMessage ==
    \E origin \in Origins, data \in PageData : SidebarPageListeners(origin, data)

InitPage ==
    /\ IdleCfg /\ IdleDom /\ IdleOut /\ IdleWatch /\ IdleInject /\ IdleNav /\ IdlePanel
    /\ tabQ = <<>> /\ pageQ = <<>>
    /\ pageIframe \in BOOLEAN

NextPage == SidebarPageMessage \/ TabReceives \/ PageReceives

SpecSidebarPage == InitPage /\ [][NextPage]_vars

\* C10: the sidebar page forwards a request to the tab only when the event
\* came from the trusted origin, and every post to the iframe is addressed
\* to the trusted origin, never to the wildcard.
C10_CheckedBothDirections ==
    [][/\ (tabQ' # tabQ /\ lastEvent' # NoEvent) => lastEvent'.origin = getTrustedOrigin
       /\ \A i \in DOMAIN emitted' :
             emitted'[i].ch = "post" => emitted'[i].target = getTrustedOrigin]_vars

-----------------------------------------------------------------------------
(* Specification of the one-shot read getDomInfo on its two paths: the      *)
(* window channel (handleGetDomInfo) and the host channel (sidebar page ->  *)
(* tab -> sidebar page).                                                    *)

RequestIds == {"r1", "r2"}

DomInfoData(attributes) ==
    {Data("get-dom-info", sel, JsNull, JsNull, at, JsNull, id, NoRequest) :
        sel \in Selectors, at \in attributes, id \in RequestIds}

DomInfoWindowRequest ==
    \E origin \in {PanelOrigin, EvilOrigin}, data \in DomInfoData({"value", "data-x"}) :
        WindowListener(origin, data)

DomInfoPageRequest ==
    \E data \in DomInfoData({"value"}) : SidebarPageListeners(PanelOrigin, data)

InitDomInfo ==
    /\ IdleCfg
    /\ els \in {InitElement, [InitElement EXCEPT !.dataX = "a"]}
    /\ iframe \in BOOLEAN
    /\ IdleOut /\ IdleWatch /\ IdleInject /\ IdleNav /\ IdlePanel
    /\ tabQ = <<>> /\ pageQ = <<>>
    /\ pageIframe \in BOOLEAN

NextDomInfo ==
    \/ DomInfoWindowRequest \/ DomInfoPageRequest \/ TabReceives \/ PageReceives
    \/ PageRemoves

SpecDomInfo == InitDomInfo /\ [][NextDomInfo]_vars

\* The selector of a request matches no element of the document.
NoElement(selector) == selector = NoneSelector \/ ~els.exists

\* The window listener of the tab ran handleGetDomInfo in this step.
WindowDomInfoStep ==
    /\ lastEvent'.at = "window" /\ lastEvent'.type = "get-dom-info"
    /\ lastEvent'.origin = getTrustedOrigin

\* The sidebar page received a get-dom-info request in this step.
PageDomInfoStep == lastEvent'.at = "page" /\ lastEvent'.type = "get-dom-info"

\* The tab handled a forwarded getDomInfo request in this step.
TabDomInfoStep ==
    /\ tabQ # <<>> /\ tabQ' = Tail(tabQ)
    /\ Head(tabQ).action = "getDomInfo"

\* The sidebar page ran the response callback of a getDomInfo request.
PageResponseStep ==
    /\ pageQ # <<>> /\ pageQ' = Tail(pageQ)
    /\ Head(pageQ).ch = "response"

\* The step posted exactly one dom-info-result with this id and value and
\* raised no error.
OneResult(id, value) ==
    /\ Len(emitted') = 1
    /\ emitted'[1].type = "dom-info-result"
    /\ emitted'[1].id = id
    /\ emitted'[1].value = value
    /\ ~threw'

\* The step put exactly one response with this id and value on its way to
\* the sidebar page.
OneResponse(id, value) ==
    /\ Len(pageQ') = Len(pageQ) + 1
    /\ pageQ'[Len(pageQ')].ch = "response"
    /\ pageQ'[Len(pageQ')].id = id
    /\ pageQ'[Len(pageQ')].value = value

\* The sidebar page forwarded the request with its requestId.
ForwardedDomInfo ==
    /\ Len(tabQ') = Len(tabQ) + 1
    /\ tabQ'[Len(tabQ')].action = "getDomInfo"
    /\ tabQ'[Len(tabQ')].selector = lastEvent'.selector
    /\ tabQ'[Len(tabQ')].attribute = lastEvent'.attribute
    /\ tabQ'[Len(tabQ')].reply = lastEvent'.id

\* getDomInfo for a selector that matches nothing, on both paths; with
\* `present` only where the iframe to post to exists.
NullForNoElement(present) ==
    /\ (WindowDomInfoStep /\ NoElement(lastEvent'.selector) /\ (present => iframe))
          => OneResult(lastEvent'.id, JsNull)
    /\ PageDomInfoStep => ForwardedDomInfo
    /\ (TabDomInfoStep /\ NoElement(Head(tabQ).selector))
          => OneResponse(Head(tabQ).reply, JsNull)
    /\ (PageResponseStep /\ Head(pageQ).value = JsNull /\ (present => pageIframe))
          => OneResult(Head(pageQ).id, JsNull)

\* C13 (as stated): getDomInfo for a selector matching zero elements
\* produces exactly one dom-info-result whose value is null and whose
\* requestId is the supplied one, and raises no error.
C13_NullForNoElement == [][NullForNoElement(FALSE)]_vars

\* C13 (amended): the same whenever the context that posts the result
\* holds the panel iframe.
C13_NullForNoElementWhenPanelPresent == [][NullForNoElement(TRUE)]_vars

\* The tab has just answered a request for an element that does not exist.
C13_Witness ==
    /\ lastEvent.at = "window" /\ lastEvent.type = "get-dom-info"
    /\ lastEvent.id = "r2"
    /\ ~els.exists
    /\ Len(emitted) = 1
    /\ emitted[1].type = "dom-info-result"
    /\ emitted[1].id = "r2"
    /\ emitted[1].value = JsNull

\* getDomInfo for a selector that matches an element, on both paths, where
\* the iframe to post to exists: the window listener posts the element's
\* current value, the tab answers the forwarded request with it, and the
\* sidebar page relays the answer.
ValueForElement ==
    /\ (WindowDomInfoStep /\ ~NoElement(lastEvent'.selector) /\ iframe)
          => OneResult(lastEvent'.id,
                       PropertyElseAttribute(els, lastEvent'.attribute))
    /\ PageDomInfoStep => ForwardedDomInfo
    /\ (TabDomInfoStep /\ ~NoElement(Head(tabQ).selector))
          => OneResponse(Head(tabQ).reply,
                         PropertyElseAttribute(els, Head(tabQ).attribute))
    /\ (PageResponseStep /\ pageIframe)
          => OneResult(Head(pageQ).id, Head(pageQ).value)

\* C14: for a selector that matches an element the single response of
\* getDomInfo carries the element's current value (the property if
\* present, else the attribute) on the window channel and on the host
\* channel.
C14_ValueOnEveryPath == [][ValueForElement]_vars


-----------------------------------------------------------------------------
(* Correlation ids on the host channel.                                     *)

\* The sidebar page received a request to watch an element in this step.
PageObserveStep ==
    /\ lastEvent'.at = "page"
    /\ lastEvent'.type \in {"start-dom-observer", "observe-dom-value"}

\* The sidebar page got a domValueChanged runtime message in this step.
PageNotificationStep ==
    /\ pageQ # <<>> /\ pageQ' = Tail(pageQ)
    /\ Head(pageQ).ch = "runtime" /\ Head(pageQ).type = "domValueChanged"

\* C15: every response to the panel carries the caller's correlation id
\* unchanged: a watch request is forwarded with its watchId and every
\* domValueChanged of the tab is relayed to the panel with that watchId, a
\* get-dom-info request is forwarded and answered with its requestId; no
\* notification is dropped or delivered without its id.
C15_CorrelationIdKept ==
    [][/\ PageObserveStep =>
             /\ Len(tabQ') = Len(tabQ) + 1
             /\ tabQ'[Len(tabQ')].watchId = lastEvent'.id
       /\ PageDomInfoStep => ForwardedDomInfo
       /\ (PageNotificationStep /\ pageIframe) =>
             /\ Len(emitted') = 1
             /\ emitted'[1].type = "domValueChanged"
             /\ emitted'[1].id = Head(pageQ).id
             /\ emitted'[1].id # JsNull
       /\ (PageResponseStep /\ pageIframe) =>
             OneResult(Head(pageQ).id, Head(pageQ).value)]_vars

-----------------------------------------------------------------------------
(* The routers: the chrome.runtime.onMessage listener of the background     *)
(* script (part_000:24-77), the one of the content script                   *)
(* (content.js:155-186), and the listeners already modelled, each with      *)
(* the handlers it runs for a message.                                      *)

MaxTasks == 2

\* A runtime request the background script receives.
BgRequest(type, action) ==
    [type |-> type, action |-> action, url |-> "/u2", title |-> "t2"]

\* The conditions of the background listener, in the order of the code.
BgBranches(request) ==
    << <<"captureScreenshot", request.action = "captureScreenshot">>,
       <<"overwriteText", request.action = "overwriteText">>,
       <<"getUserData", request.action = "getUserData">>,
       <<"READ_URL", request.type = "NORDCRAFT_ACTION" /\ request.action = "READ_URL">>,
       <<"URL_CHANGED", request.type = "NORDCRAFT_ACTION" /\ request.action = "URL_CHANGED">>,
       <<"openSidebar", request.action = "openSidebar">> >>

\* Separate if statements: every one whose condition holds runs, except
\* that the first, captureScreenshot, returns from the listener.
SeparateIfs(holding) ==
    IF holding # <<>> /\ Head(holding) = "captureScreenshot"
    THEN <<Head(holding)>>
    ELSE holding

\* sendResponse(value): when is "sync" if the handler calls it before the
\* listener returns, "async" if a callback calls it afterwards.
Reply(type, value, when) ==
    [ch |-> "response", type |-> type, target |-> "", id |-> JsNull, value |-> value,
     when |-> when]

\* What the listener returns: true (the channel stays open for a later
\* sendResponse) in the captureScreenshot block, else nothing.
BgReturns_Never(ran) == "undefined"

BgReturns(ran) ==
    IF \E i \in DOMAIN ran : ran[i] = "captureScreenshot" THEN "true" ELSE "undefined"

\* What one handler of the background listener sends.
BgSends(handler, request, fromTab) ==
    CASE handler = "captureScreenshot" ->
            <<Reply("captureScreenshot", "image", "async")>>
      [] handler = "overwriteText" ->
            <<Msg("tab", "overwriteText", "", TabId, JsNull)>>
      [] handler = "getUserData" ->
            <<Reply("getUserData", JsNull, "sync")>>
      [] handler = "URL_CHANGED" ->
            <<UrlUpdate(request.url, request.title, IF fromTab THEN TabId ELSE JsNull)>>
      [] handler = "openSidebar" ->
            IF fromTab THEN <<Msg("tab", "showCustomSidebar", "", TabId, JsNull)>> ELSE <<>>
      [] OTHER -> <<>>

RECURSIVE BgSent(_, _, _)
BgSent(ran, request, fromTab) ==
    IF ran = <<>> THEN <<>>
    ELSE BgSends(Head(ran), request, fromTab) \o BgSent(Tail(ran), request, fromTab)

\* The chrome.runtime.onMessage listener of the background script; the
\* runtime messages it sends reach the sidebar page if one is open.
BackgroundListener(request, fromTab, pageOpen) ==
    LET ran == SeparateIfs(Holding(BgBranches(request))) IN
    /\ emitted' = BgSent(ran, request, fromTab)
    /\ threw' = FALSE
    /\ lastEvent' = [EventOf("background", "-", request.type, request.action,
                             "-", "-", "-", ran)
                        EXCEPT !.returned = BgReturns(ran)]
    /\ pageQ' = IF pageOpen THEN Enqueued(pageQ, RuntimeMessages(emitted')) ELSE pageQ
    /\ Len(pageQ') <= MaxRelayed
    /\ UNCHANGED <<cfgVars, domVars, watchVars, injectVars, navVars, panelVars,
                   tabQ, pageIframe>>

\* A runtime request the content script receives.
RuntimeRequest(type, request) == [type |-> type] @@ request

\* The conditions of the content script's listener, in the order of the
\* code.
ContentRuntimeBranches(request) ==
    << <<"handleManipulateDomRequest", request.type = "manipulateDom">>,
       <<"getData", request.type = "getData">>,
       <<"toggleCustomSidebar", request.action = "showCustomSidebar">>,
       <<"checkSidebarState", request.action = "checkSidebarState">> >>

\* The chrome.runtime.onMessage listener of the content script,
\* content.js:155-186.
ContentRuntimeListener(request) ==
    LET ran     == ElseIfChain(Holding(ContentRuntimeBranches(request)))
        handler == IF ran = <<>> THEN "-" ELSE Head(ran)
    IN
    /\ lastEvent' = EventOf("tab", "-", request.type, request.action,
                            request.selector, "-", "-", ran)
    /\ CASE handler = "handleManipulateDomRequest" ->
               /\ HandleManipulateDomRequest(request)
               /\ UNCHANGED <<iframe, storage, wrapper, btn, tasks, panelHist>>
         [] handler = "getData" ->
               /\ emitted' = <<Reply("getData", location, "sync")>>
               /\ threw' = FALSE
               /\ UNCHANGED <<els, bindings, injectVars, iframe, storage, wrapper,
                              btn, tasks, panelHist>>
         [] handler = "toggleCustomSidebar" ->
               /\ ToggleCustomSidebar(tasks, panelHist)
               /\ emitted' = <<>>
               /\ threw' = FALSE
               /\ UNCHANGED <<els, bindings, injectVars>>
         [] handler = "checkSidebarState" ->
               /\ tasks' = IF wrapper = "none"
                           THEN Add(tasks, Task("checkGet", NoSnap))
                           ELSE tasks
               /\ emitted' = <<>>
               /\ threw' = FALSE
               /\ UNCHANGED <<els, bindings, injectVars, iframe, storage, wrapper,
                              btn, panelHist>>
         [] OTHER ->
               /\ emitted' = <<>>
               /\ threw' = FALSE
               /\ UNCHANGED <<els, bindings, injectVars, iframe, storage, wrapper,
                              btn, tasks, panelHist>>
    /\ BagCardinality(tasks') <= MaxTasks
    /\ pageQ' = Enqueued(pageQ, RuntimeMessages(emitted'))
    /\ Len(pageQ') <= MaxRelayed
    /\ UNCHANGED <<cfgVars, navVars, now, ctx, otherOpen, completes, tabQ, pageIframe>>

-----------------------------------------------------------------------------
(* Specification of the routers.                                            *)

NoType == JsNull

BgRequests ==
    {BgRequest(t, a) :
        t \in {"NORDCRAFT_ACTION", "SIDEBAR_READY"},
        a \in {"captureScreenshot", "getUserData", "URL_CHANGED", "openSidebar", JsNull}}

RuntimeRequests ==
    {RuntimeRequest(t, HostRequest(a, ElSelector, "b", JsNull, JsNull, JsNull,
                                   NoRequest, NoReply)) :
        t \in {"manipulateDom", "getData", NoType},
        a \in {"other", "showCustomSidebar", "checkSidebarState"}}

RouterData ==
    {Data("manipulate-dom", ElSelector, a, "b", JsNull, JsNull, JsNull, NoRequest) :
        a \in {"setText", "other"}}
    \cup {Data("get-tab-info", JsNull, JsNull, JsNull, JsNull, JsNull, JsNull, NoRequest),
          Data("unknown-type", ElSelector, "setText", "b", "value", JsNull, "w1", MsgRequest)}

\* A runtime message of the content script that the sidebar page gets too.
Broadcasts == {Msg("runtime", "NORDCRAFT_ACTION", "", JsNull, "/u2")}

\* A runtime message reaches the background script while no sidebar page is
\* open.
BackgroundMessage ==
    \E request \in BgRequests : BackgroundListener(request, TRUE, FALSE)

ContentRuntimeMessage == \E request \in RuntimeRequests : ContentRuntimeListener(request)

RouterWindowMessage == \E data \in RouterData : WindowListener(PanelOrigin, data)

RouterPageMessage == \E data \in RouterData : SidebarPageListeners(PanelOrigin, data)

\* chrome delivers a runtime message of the content script to the sidebar
\* page.
PageGetsBroadcast ==
    /\ \E m \in Broadcasts : pageQ' = Append(pageQ, m)
    /\ Len(pageQ') <= MaxRelayed
    /\ Quiet
    /\ UNCHANGED <<cfgVars, domVars, watchVars, injectVars, navVars, panelVars,
                   tabQ, pageIframe>>

InitRouter ==
    /\ IdleCfg
    /\ els = InitElement /\ iframe = FALSE
    /\ IdleOut /\ IdleWatch /\ IdleInject /\ IdleNav /\ IdlePanel
    /\ tabQ = <<>> /\ pageQ = <<>>
    /\ pageIframe \in BOOLEAN

NextRouter ==
    \/ BackgroundMessage \/ ContentRuntimeMessage
    \/ RouterWindowMessage \/ RouterPageMessage
    \/ PageGetsBroadcast
    \/ TabReceives \/ PageReceives \/ Open50Fires

SpecRouter == InitRouter /\ [][NextRouter]_vars

-----------------------------------------------------------------------------
(* Specification of the relay of URL updates: tab events and URL_CHANGED    *)
(* messages reach the background script, whose SIDEBAR_UPDATE_URL reaches   *)
(* the open sidebar page.                                                   *)

UrlRequests ==
    {BgRequest("NORDCRAFT_ACTION", a) : a \in {"READ_URL", "URL_CHANGED"}}

UrlMessage ==
    \E request \in UrlRequests, fromTab \in BOOLEAN :
        BackgroundListener(request, fromTab, TRUE)

\* A tab event reaches the background script; the message it sends reaches
\* the sidebar page.
TabEvent ==
    /\ \E change \in TabChanges \cup {"activated"} :
          /\ IF change = "activated" THEN OnActivated ELSE OnUpdated(change)
          /\ completes' = IF change = "complete" THEN completes + 1 ELSE completes
    /\ completes' <= MaxCompletes
    /\ pageQ' = Enqueued(pageQ, RuntimeMessages(emitted'))
    /\ Len(pageQ') <= MaxRelayed
    /\ UNCHANGED <<cfgVars, domVars, watchVars, injectVars, navVars, now, storage,
                   wrapper, btn, ctx, otherOpen, panelHist, tabQ, pageIframe>>

NextUrlRelay == UrlMessage \/ TabEvent \/ PageReceives

SpecUrlRelay == InitRouter /\ [][NextUrlRelay]_vars

\* The step sent exactly one SIDEBAR_UPDATE_URL with this url, title and
\* tab id.
OneUrlUpdate(url, title, tabId) ==
    /\ Len(emitted') = 1
    /\ emitted'[1].type = "SIDEBAR_UPDATE_URL"
    /\ emitted'[1].value = url
    /\ emitted'[1].title = title
    /\ emitted'[1].id = tabId

\* The sidebar page got a SIDEBAR_UPDATE_URL message in this step.
PageUrlUpdateStep ==
    /\ pageQ # <<>> /\ pageQ' = Tail(pageQ)
    /\ Head(pageQ).type = "SIDEBAR_UPDATE_URL"

\* C18: every URL_CHANGED message the background script receives, every
\* activation of a tab and every update of its URL or load status results
\* in one SIDEBAR_UPDATE_URL carrying {url, title, tabId}; and a sidebar
\* page with a panel iframe that receives SIDEBAR_UPDATE_URL posts that
\* tuple to the iframe and raises no error.
C18_UrlUpdateRelayed ==
    [][/\ (lastEvent'.at = "background" /\ lastEvent'.action = "URL_CHANGED"
             /\ lastEvent'.type = "NORDCRAFT_ACTION")
          => \E tabId \in {TabId, JsNull} : OneUrlUpdate("/u2", "t2", tabId)
       /\ (lastEvent'.at = "background"
             /\ \/ lastEvent'.type = "onActivated"
                \/ lastEvent'.type = "onUpdated" /\ lastEvent'.action \in {"url", "complete"})
          => OneUrlUpdate(location, docTitle, TabId)
       /\ (PageUrlUpdateStep /\ pageIframe)
          => /\ ~threw'
             /\ Len(emitted') = 1
             /\ emitted'[1].ch = "post"
             /\ emitted'[1].value = Head(pageQ).value
             /\ emitted'[1].id = Head(pageQ).id]_vars

-----------------------------------------------------------------------------
(* Unrecognised messages, and the number of handlers of a message.          *)

\* The actions handleManipulateDomRequest and performDomAction recognise.
HostActions ==
    (DomActions \ {"other"}) \cup
    {"observeDomValue", "injectWebComponent", "appendHTML", "prependHTML"}

\* The message of this event has a type or an action that the context
\* which received it does not recognise.
Unrecognised(e) ==
    CASE e.at = "window" ->
            \/ e.type \notin RecognisedTypes
            \/ e.type = "manipulate-dom" /\ e.action \notin DomActions \ {"other"}
      [] e.at = "page" -> e.type \notin RecognisedTypes
      [] e.at = "tab" ->
            \/ /\ e.type \notin {"manipulateDom", "getData"}
               /\ e.action \notin {"showCustomSidebar", "checkSidebarState"}
            \/ e.type = "manipulateDom" /\ e.action \notin HostActions
      [] e.at = "background" ->
            /\ e.type \notin {"onUpdated", "onActivated"}
            /\ e.action \notin {"captureScreenshot", "overwriteText", "getUserData",
                                "openSidebar"}
            /\ ~(e.type = "NORDCRAFT_ACTION" /\ e.action \in {"READ_URL", "URL_CHANGED"})
      [] e.at = "pageRuntime" -> e.type \notin {"domValueChanged", "SIDEBAR_UPDATE_URL"}
      [] OTHER -> FALSE

\* The step changed nothing but the queue the message was taken from, sent
\* nothing and raised no error.
Dropped ==
    /\ UNCHANGED <<cfgVars, domVars, watchVars, injectVars, navVars, panelVars,
                   tabQ, pageIframe>>
    /\ pageQ' = pageQ \/ (pageQ # <<>> /\ pageQ' = Tail(pageQ))
    /\ emitted' = <<>>
    /\ ~threw'

\* C19: a message whose type or action the receiving context does not
\* recognise is dropped: no DOM change, no change of persisted or in-memory
\* state, no outbound message, no error.
C19_UnrecognisedDropped == [][Unrecognised(lastEvent') => Dropped]_vars

\* Each context has dropped a message: here the content script, which got
\* manipulateDom with an action it does not know.
C19_Witness ==
    /\ lastEvent.at = "tab"
    /\ lastEvent.type = "manipulateDom"
    /\ lastEvent.action = "other"
    /\ lastEvent.ran = <<"handleManipulateDomRequest">>
    /\ els.text = "b"
    /\ emitted = <<>>

\* C20: at most one handler acts on a message, in every context.
C20_AtMostOneHandler == [][Len(lastEvent'.ran) <= 1]_vars

\* The content script got manipulateDom together with showCustomSidebar:
\* handleManipulateDomRequest ran, the panel was not toggled.
C20_Witness ==
    /\ lastEvent.at = "tab"
    /\ lastEvent.type = "manipulateDom"
    /\ lastEvent.action = "showCustomSidebar"
    /\ lastEvent.ran = <<"handleManipulateDomRequest">>
    /\ wrapper = "none"

\* The responses of this step that are sent after the listener returned.
LateReplies ==
    {i \in DOMAIN emitted' : emitted'[i].ch = "response" /\ emitted'[i].when = "async"}

\* C21: a listener keeps the response channel open (returns true) exactly
\* when one of its handlers responds after the listener has returned, so no
\* response is sent on a closed channel.
C21_ChannelOpenIffLateReply ==
    [][(lastEvent'.returned = "true") <=> (LateReplies # {})]_vars

\* The background script has kept the channel open for the screenshot, whose
\* response the callback of captureVisibleTab sends.
C21_Witness ==
    /\ lastEvent.at = "background"
    /\ lastEvent.action = "captureScreenshot"
    /\ lastEvent.returned = "true"
    /\ Len(emitted) = 1
    /\ emitted[1].ch = "response"
    /\ emitted[1].when = "async"

-----------------------------------------------------------------------------
(* The retry loop of createCustomElement.                                    *)

RetryStep == lastEvent'.at = "retry"

Retried == Head(retryQ)

HasElement(es, name) == \E i \in DOMAIN es : es[i].name = name

\* C22: while the registry is available and the name is not registered, no
\* element of that type exists and a firing retry creates nothing and
\* queues itself again (there is no attempt count: the request stays
\* pending for as long as the name is unregistered); a retry that fires
\* once the name is registered leaves the queue and the document then holds
\* an element of that type.
C22_RetryUntilRegistered ==
    /\ [](\A name \in Names :
            (regAvailable /\ name \notin registered) => ~HasElement(customEls, name))
    /\ [][RetryStep =>
            IF regAvailable /\ Retried.name \notin registered
            THEN /\ customEls' = customEls
                 /\ retryQ' = Append(Tail(retryQ), Retried)
            ELSE /\ retryQ' = Tail(retryQ)
                 /\ HasElement(customEls', Retried.name)]_vars

C22_Witness ==
    /\ lastEvent.at = "retry" /\ lastEvent.action = "place"
    /\ calls.n = 1 /\ retryQ = <<>>
    /\ Len(customEls) = 1 /\ customEls[1].name \in registered

-----------------------------------------------------------------------------
(* The polling timer: setInterval keeps firing once initializeExtension has *)
(* set it up, and loadExtensionConfig always resolves.                      *)

SpecNavFair ==
    InitNav /\ [][NextNav]_vars /\ WF_vars(InitializeUrlDetection) /\ WF_vars(UrlPolling)

\* A URL_CHANGED notification for u is in the messages of the last callback
\* and currentUrl is u.
Notified(u) ==
    /\ currentUrl = u
    /\ \E i \in DOMAIN emitted :
          emitted[i].type = "URL_CHANGED" /\ emitted[i].newUrl = u

\* C23: whenever the location is a URL the detector has not recorded, then
\* (with the polling timer firing again and again) either the location
\* changes again or a notification with newUrl equal to that location is
\* emitted and currentUrl equals it; no history call, popstate event or
\* title change is needed.
C23_PollCatchesNavigation ==
    \A u \in Urls : (location = u /\ currentUrl # u) ~> (location # u \/ Notified(u))

\* The poll has notified a change that no other signal had reported.
C23_Witness ==
    /\ detecting /\ navHist.polled /\ ~popstatePending /\ titleTimers = 0
    /\ docTitle = "t1" /\ location = "/u2" /\ Notified("/u2")

-----------------------------------------------------------------------------
(* The restore evaluators alone: the page-load restore of the content       *)
(* script, the checkSidebarState handler and the load-complete check of    *)
(* the background script, with the restore window the settings file gives. *)

ConfiguredMinutes == 10

\* settings.json with behavior.autoRestoreTimeMinutes left at 5, or set to 10.
RestoreConfigs ==
    {LoadedConfig, (IframeSrcKey :> PanelUrl) @@ (AutoRestoreKey :> ConfiguredMinutes)}

ContentInitConfigured == \E config \in RestoreConfigs : ContentInitWith(config)

InitRestore ==
    /\ extensionConfig = NoConfig
    /\ els = InitElement /\ iframe = FALSE
    /\ IdleOut /\ IdleWatch /\ IdleInject /\ IdlePage
    /\ location = "/u1" /\ docTitle = "t1" /\ currentUrl = "/u1" /\ currentTitle = "t1"
    /\ detecting = FALSE /\ popstatePending = FALSE /\ titleTimers = 0
    /\ navHist = [navs |-> 0, notes |-> 0, polled |-> TRUE]
    /\ now = Now0
    /\ storage \in {st \in InitStorage : st.sidebarUrl # OtherUrl}
    /\ wrapper = "none" /\ btn = "none" /\ ctx = "none"
    /\ tasks = EmptyBag
    /\ otherOpen = FALSE
    /\ completes = 0
    /\ panelHist = NoPanelHist

NextRestore ==
    \/ ContentStarts \/ ContentInitConfigured \/ RestoreTimerFires \/ StorageRead
    \/ RestoreCallback \/ Restore250Fires \/ Open50Fires
    \/ BgLoadComplete \/ Bg500Fires \/ BgCallback \/ CheckMsgDelivered
    \/ CheckCallback \/ Check100Fires \/ Tick

SpecRestore == InitRestore /\ [][NextRestore]_vars

\* What the three evaluators make of the persisted record at this moment.
RestoreEvaluation == Evaluate(StorageGet, getConfig(AutoRestoreKey, DefaultAutoRestoreMinutes))
CheckEvaluation   == Evaluate(StorageGet, FiveMinutes)
BgEvaluation      == Evaluate(StorageGet, FiveMinutes)

\* C24: once the configuration is loaded, the page-load restore, the
\* checkSidebarState handler and the background check classify the
\* persisted record identically (fresh, stale or closed), for every
\* configured window and every age of the record.
C24_EvaluatorsAgree ==
    extensionConfig # NoConfig =>
        /\ RestoreEvaluation = CheckEvaluation
        /\ RestoreEvaluation = BgEvaluation

\* A restore evaluation has just run on a record whose sidebarOpen is false
\* or missing.
EvaluatedClosed ==
    lastEvent'.type = "evaluate" /\ lastEvent'.attribute \in {"false", "undefined"}

NothingScheduled ==
    /\ BagCardinality(tasks') = BagCardinality(tasks) - 1
    /\ \A t \in BagToSet(tasks') : CopiesIn(t, tasks') <= CopiesIn(t, tasks)

\* C30: a restore evaluation (page-load restore, checkSidebarState handler,
\* background check) that finds sidebarOpen false or no persisted record
\* leaves the persisted record, the panel wrapper, the iframe and the
\* toggle button as they were, schedules no timer or message and sends
\* nothing.
C30_ClosedTakesNoAction ==
    [][EvaluatedClosed =>
          /\ storage' = storage
          /\ wrapper' = wrapper /\ iframe' = iframe /\ btn' = btn
          /\ NothingScheduled
          /\ emitted' = <<>> /\ threw' = FALSE]_vars

\* The background check has just run on an empty storage after the tab's
\* own evaluation had found it closed too.
C30_Witness ==
    /\ lastEvent.at = "bgCb" /\ lastEvent.type = "evaluate"
    /\ lastEvent.attribute = "undefined"
    /\ "closed" \in panelHist.evals
    /\ storage = EmptyStorage /\ wrapper = "none" /\ tasks = EmptyBag

-----------------------------------------------------------------------------
(* Requests for an element that is not in the document, on the window       *)
(* channel and on the host channel.                                         *)

AbsentWindowData ==
    {Data("manipulate-dom", sel, a, "b", JsNull, JsNull, JsNull, NoRequest) :
        sel \in Selectors, a \in {"setText", "removeElement"}}
    \cup {Data("start-dom-observer", sel, JsNull, JsNull, "value", JsNull, "w1", NoRequest) :
        sel \in Selectors}

AbsentHostRequests ==
    {RuntimeRequest("manipulateDom",
                    HostRequest(a, sel, "b", "value", JsNull, "w2", NoRequest, NoReply)) :
        sel \in Selectors, a \in {"setText", "removeElement", "observeDomValue"}}

AbsentWindowMessage == \E data \in AbsentWindowData : WindowListener(PanelOrigin, data)

AbsentHostMessage == \E request \in AbsentHostRequests : ContentRuntimeListener(request)

\* A page script adds an element the selector matches.  The listeners and
\* observers of an element removed earlier stay with that element.
PageAdds ==
    /\ ~els.exists
    /\ els' = InitElement
    /\ bindings' = <<>>
    /\ Quiet
    /\ UNCHANGED <<cfgVars, iframe, injectVars, navVars, panelVars, pageVars>>

InitAbsent ==
    /\ IdleCfg
    /\ els \in {InitElement, [InitElement EXCEPT !.exists = FALSE]}
    /\ iframe = TRUE
    /\ IdleOut /\ IdleWatch /\ IdleInject /\ IdleNav /\ IdlePanel /\ IdlePage

NextAbsent ==
    \/ AbsentWindowMessage \/ AbsentHostMessage \/ PageAdds
    \/ UserTypes \/ PageSetsText \/ PageReceives

SpecAbsent == InitAbsent /\ [][NextAbsent]_vars

\* A manipulate, remove or observe request has just been handled, on the
\* window channel or on the host channel.
ElementRequestStep ==
    /\ lastEvent'.at \in {"window", "tab"}
    /\ lastEvent'.type \in {"manipulate-dom", "start-dom-observer", "manipulateDom"}
    /\ lastEvent'.ran # <<>>

NoElementFor(selector) == selector # ElSelector \/ ~els.exists

\* C25: a manipulate, remove or observe request on either channel whose
\* selector matches no element changes nothing: the document, the watches,
\* the injector, the panel and the queues are as before, nothing is sent
\* and no error is raised.  Since no state keeps the request, an element
\* that appears later finds nothing waiting for it: the step in which it
\* appears sends nothing and leaves no watch.
C25_AbsentTargetNoOp ==
    [][/\ (ElementRequestStep /\ NoElementFor(lastEvent'.selector)) =>
            /\ UNCHANGED <<cfgVars, domVars, watchVars, injectVars, navVars,
                           panelVars, pageVars>>
            /\ emitted' = <<>> /\ threw' = FALSE
       /\ (~els.exists /\ els'.exists) => (emitted' = <<>> /\ bindings' = <<>>)]_vars

\* An observe request for the missing element has been handled on the host
\* channel: there is no watch.
C25_Witness ==
    /\ lastEvent.at = "tab" /\ lastEvent.action = "observeDomValue"
    /\ lastEvent.selector = ElSelector /\ lastEvent.ran # <<>>
    /\ ~els.exists /\ bindings = <<>> /\ emitted = <<>> /\ ~threw

-----------------------------------------------------------------------------
(* The messages of one detected navigation.                                 *)

Detected == currentUrl' # currentUrl

\* The messages of this step that have the given type.
NavMsgs(type) == {i \in DOMAIN emitted' : emitted'[i].type = type}

CarriesNew(i) ==
    emitted'[i].newUrl = currentUrl' /\ emitted'[i].title = docTitle'

\* C26: a step that detects a navigation sets currentUrl to the location
\* and sends exactly one URL_CHANGED runtime message and, when the panel
\* iframe exists, exactly one url-changed and one tab-info post after it
\* (none otherwise); all carry the new currentUrl and the document title,
\* URL_CHANGED and url-changed also the previous currentUrl; a step that
\* detects nothing sends none of them.
C26_OneNotificationSet ==
    [][IF Detected
       THEN /\ currentUrl' = location'
            /\ ~threw'
            /\ Len(emitted') = IF iframe THEN 3 ELSE 1
            /\ emitted'[1].ch = "runtime" /\ emitted'[1].type = "URL_CHANGED"
            /\ emitted'[1].oldUrl = currentUrl
            /\ iframe => /\ emitted'[2].ch = "post" /\ emitted'[2].type = "url-changed"
                         /\ emitted'[2].oldUrl = currentUrl
                         /\ emitted'[3].ch = "post" /\ emitted'[3].type = "tab-info"
            /\ \A i \in DOMAIN emitted' : CarriesNew(i)
       ELSE emitted' = <<>>]_vars

\* A navigation from /u1 to /u2 has just been notified to the background
\* and to the panel.
C26_Witness ==
    /\ iframe /\ currentUrl = "/u2" /\ location = "/u2"
    /\ Len(emitted) = 3
    /\ emitted[1].type = "URL_CHANGED" /\ emitted[1].oldUrl = "/u1"
    /\ emitted[2].type = "url-changed" /\ emitted[3].type = "tab-info"
    /\ emitted[3].newUrl = "/u2" /\ emitted[3].title = docTitle

-----------------------------------------------------------------------------
(* Where the injector puts the element.                                     *)

\* The places the element may take relative to its target: the end of body
\* when there is no target, the target's place, or next to the target as
\* its sibling before or after it.
SiblingPlaces == {"body", "replaced", "before", "after"}

\* C27: every element the injector has placed is at the end of body (no
\* target), in the place of its target (replace), or a sibling before
\* (prepend) or after (append, missing or unknown placement) its target.
C27_PlacedBesideTarget ==
    \A i \in ElIndexes : customEls[i].kind \in SiblingPlaces

-----------------------------------------------------------------------------
(* Watches with distinct watchIds on the one element.                       *)

DistinctIds ==
    \A i, j \in DOMAIN bindings : i # j => bindings[i].watchId # bindings[j].watchId

\* Binding i re-read a value different from its own last value in this step.
ObservedChange(i) == bindings'[i].lastValue # bindings[i].lastValue

\* The change notifications of this step that carry watchId w.
NotesOf(w) ==
    {k \in DOMAIN emitted' : emitted'[k].type = "domValueChanged" /\ emitted'[k].id = w}

CanNotify(b) == b.channel = "host" \/ b.hasIframe

\* Each binding has its own last value (it changes only to what that binding
\* re-read), and the notifications that carry its watchId are exactly the
\* one of its own observed change, if `notifies` holds for it.
Independent(notifies(_)) ==
    \A i \in DOMAIN bindings :
        LET b == bindings[i] IN
        /\ bindings'[i].lastValue \in {b.lastValue, ReadValue(els', b.attribute)}
        /\ Cardinality(NotesOf(b.watchId))
              = IF ObservedChange(i) /\ notifies(b) THEN 1 ELSE 0
        /\ \A k \in NotesOf(b.watchId) : emitted'[k].value = bindings'[i].lastValue

EveryBinding(b) == TRUE

-----------------------------------------------------------------------------
(* The order of the notifications of a watch on its way to the panel:       *)
(* posted by the tab (window channel), or sent to the sidebar page and      *)
(* posted by its relay (host channel).                                      *)

OrderHostRequests ==
    {RuntimeRequest("manipulateDom",
                    HostRequest("observeDomValue", ElSelector, JsNull, "value", e, "w1",
                                NoRequest, NoReply)) : e \in {JsNull, "change"}}
    \cup {RuntimeRequest("manipulateDom",
                         HostRequest("setInputValue", ElSelector, v, JsNull, JsNull, JsNull,
                                     NoRequest, NoReply)) : v \in Values}

OrderWindowData ==
    {Data("start-dom-observer", ElSelector, JsNull, JsNull, "value", JsNull, "w2", NoRequest)}

OrderHostMessage == \E request \in OrderHostRequests : ContentRuntimeListener(request)

OrderWindowMessage == \E data \in OrderWindowData : WindowListener(PanelOrigin, data)

InitOrder ==
    /\ IdleCfg /\ IdleDom /\ IdleOut /\ IdleWatch /\ IdleInject /\ IdleNav /\ IdlePanel
    /\ tabQ = <<>> /\ pageQ = <<>>
    /\ pageIframe \in BOOLEAN

NextOrder == OrderHostMessage \/ OrderWindowMessage \/ PageReceives

SpecOrder == InitOrder /\ [][NextOrder]_vars

IsNote(m, w) == m.type = "domValueChanged" /\ m.id = w

\* The notifications of watch w that are on their way to the sidebar page,
\* oldest first.
PendingNotes(w) == SelectSeq(pageQ, LAMBDA m : IsNote(m, w))

\* The notifications of watch w among the messages of this step, in the
\* order of sending.
SentNotes(w, ch) == SelectSeq(emitted', LAMBDA m : IsNote(m, w) /\ m.ch = ch)

Last(q) == q[Len(q)]

\* The value binding i has observed last is the value of the last
\* notification of its watch sent in this step, if one was sent.
NewestSentLast(i, ch) ==
    LET sent == SentNotes(bindings'[i].watchId, ch)
    IN sent # <<>> => Last(sent).value = bindings'[i].lastValue

-----------------------------------------------------------------------------
(* Inject requests with and without their required fields.                  *)

ArgRequests ==
    {Request(n, s, sel, JsNull) : n \in Names \cup {JsNull}, s \in Srcs \cup {JsNull},
                                  sel \in {"#t1", JsNull}}

\* An inject request is handled; the event keeps its name (id), its src
\* (attribute) and its selector.
InjectArrives ==
    /\ \E req \in ArgRequests :
          /\ InjectWebComponent(req)
          /\ lastEvent' = EventOf("inject", "-", "injectWebComponent", "-",
                                  req.selector, req.src, req.name, <<>>)
    /\ emitted' = <<>>
    /\ threw' = FALSE
    /\ UNCHANGED <<cfgVars, domVars, watchVars, navVars, panelVars, pageVars>>

NextInjectArgs == InjectArrives \/ RetryFires \/ DefineElement

SpecInjectArgs == InitInjectSpec /\ [][NextInjectArgs]_vars

\* An inject request without name or without src has just been handled.
IncompleteInject ==
    /\ lastEvent'.at = "inject"
    /\ lastEvent'.id = JsNull \/ lastEvent'.attribute = JsNull

\* C31: an inject request whose name or src is missing creates no element
\* and no script, changes no existing element and no target, schedules no
\* retry, sends nothing and raises no error.
C31_IncompleteInjectNoOp ==
    [][IncompleteInject =>
          /\ UNCHANGED <<customEls, slots, pageScripts, retryQ, registered>>
          /\ emitted' = <<>> /\ threw' = FALSE]_vars

\* A request without a name has been handled while an element of an
\* earlier, complete request was in the document: the element is as it was.
C31_Witness ==
    /\ lastEvent.at = "inject" /\ lastEvent.id = JsNull /\ lastEvent.attribute = "b.js"
    /\ Len(customEls) = 1 /\ customEls[1].scripts = {"a.js"}
    /\ retryQ = <<>> /\ pageScripts = {}

-----------------------------------------------------------------------------
(* One content context with all its operations: the detector's signals,     *)
(* the host-channel requests, the watches, the injector, the toggle and     *)
(* the page-load restore.                                                   *)

FrameRequests ==
    {RuntimeRequest(NoType, HostRequest(a, JsNull, JsNull, JsNull, JsNull, JsNull,
                                        NoRequest, NoReply)) :
        a \in {"showCustomSidebar"}}
    \cup {RuntimeRequest("manipulateDom",
                         HostRequest("observeDomValue", ElSelector, JsNull, "value", JsNull,
                                     "w1", NoRequest, NoReply)),
          RuntimeRequest("manipulateDom",
                         HostRequest("injectWebComponent", "#t1", JsNull, JsNull, JsNull,
                                     JsNull, MsgRequest, NoReply))}

\* A host-channel request reaches the listener the content script has
\* registered.
\* The host sends its three requests one after the other: the watch, the
\* injection, then toggle requests.
FrameTurn(request) ==
    CASE request.action = "observeDomValue"    -> Len(bindings) = 0
      [] request.action = "injectWebComponent" -> Len(bindings) = 1 /\ calls.n = 0
      [] OTHER                                 -> calls.n = 1 /\ retryQ = <<>>

FrameHostMessage ==
    /\ ctx # "none"
    /\ \E request \in FrameRequests :
          /\ FrameTurn(request)
          /\ ContentRuntimeListener(request)

\* The page of this run moves once, to /u3, by a history call or by a
\* navigation of its own, and changes its title once.
FrameHistoryCall == location # "/u3" /\ HistoryWrapper /\ location' = "/u3"

FramePageNavigates == location # "/u3" /\ PageNavigates /\ location' = "/u3"

FrameTitleChanges == docTitle = "t1" /\ TitleChanges

InitFrame ==
    /\ extensionConfig = NoConfig
    /\ els = InitElement /\ iframe = FALSE
    /\ IdleOut /\ IdleWatch /\ IdleInject /\ IdlePage
    /\ location \in {"/u1", "/u2"} /\ currentUrl = location
    /\ docTitle = "t1" /\ currentTitle = "t1"
    /\ detecting = FALSE /\ popstatePending = FALSE /\ titleTimers = 0
    /\ navHist = [navs |-> 0, notes |-> 0, polled |-> TRUE]
    /\ now = Now0
    /\ storage \in {EmptyStorage,
                    [sidebarOpen |-> "true", sidebarUrl |-> "/u1", lastStateChange |-> Now0 - 1]}
    /\ wrapper = "none" /\ btn = "none" /\ ctx = "none"
    /\ tasks = EmptyBag
    /\ otherOpen = FALSE
    /\ completes = 0
    /\ panelHist = NoPanelHist

NextFrame ==
    \/ ContentStarts \/ ContentInit \/ RestoreTimerFires \/ StorageRead
    \/ RestoreCallback \/ Restore250Fires \/ Open50Fires
    \/ FrameHostMessage \/ RetryFires \/ DefineElement
    \/ FrameHistoryCall \/ FramePageNavigates \/ PopstateListener \/ UrlPolling
    \/ FrameTitleChanges \/ TitleTimerFires

SpecFrame == InitFrame /\ [][NextFrame]_vars

ContextStarted == ctx = "none" /\ ctx' # "none"

\* C32: currentUrl changes only in a step of one of the detector's four
\* signal handlers (history wrapper, popstate, poll, title re-check) or in
\* the start of the content context, which sets it to the page location;
\* the steps of the host-channel listener, the watches, the injector, the
\* toggle and the restore leave it as it is.
C32_OnlyDetectorChangesUrl ==
    [][/\ (currentUrl' # currentUrl) => (lastEvent'.at = "detector" \/ ContextStarted)
       /\ ContextStarted => currentUrl' = location']_vars

\* The context started on /u2 and, after a toggle request, a watch and a
\* navigation elsewhere, currentUrl is the new location.
C32_Witness ==
    /\ lastEvent.at = "detector" /\ currentUrl = "/u3" /\ location = "/u3"
    /\ wrapper # "none" /\ Len(bindings) = 1
    /\ Len(emitted) >= 1 /\ emitted[1].oldUrl = "/u2"

-----------------------------------------------------------------------------
(* The send of checkSidebarState to a tab without a content script.         *)

SendRejected == lastEvent'.at = "send" /\ lastEvent'.action = "rejected"

\* No task of the bag has more copies after the step than before it.
NothingAdded == \A t \in BagToSet(tasks') : CopiesIn(t, tasks') <= CopiesIn(t, tasks)

\* C33: when the send of checkSidebarState fails because the tab has no
\* content script yet, the background raises no error, leaves the persisted
\* record as it was, sends nothing and schedules nothing: the message is
\* not sent again.
C33_RejectedSendSwallowed ==
    [][SendRejected =>
          /\ threw' = FALSE
          /\ storage' = storage
          /\ emitted' = <<>>
          /\ NothingAdded
          /\ Pending("checkMsg") # {}
          /\ BagCardinality(tasks') = BagCardinality(tasks) - 1
          /\ wrapper' = wrapper]_vars

\* The send has failed in a tab whose content script has not started, with
\* the persisted state open.
C33_Witness ==
    /\ lastEvent.at = "send" /\ lastEvent.action = "rejected"
    /\ ctx = "none" /\ wrapper = "none"
    /\ storage.sidebarOpen = "true"

-----------------------------------------------------------------------------
(* The page-load restore and the checkSidebarState handler on one page.     *)

\* The 100 ms timer of the checkSidebarState handler fires in this step.
CheckTimerStep ==
    \E t \in Pending("check100") : CopiesIn(t, tasks') < CopiesIn(t, tasks)

\* C34: with the persisted state open and fresh, and the page-load restore
\* and the checkSidebarState handler both running for the page, the timer
\* of the checkSidebarState handler never closes a panel that is open: the
\* panel stays open and the persisted isOpen stays true.
C34_CheckNeverClosesRestoredPanel ==
    [][(CheckTimerStep /\ wrapper = "open") =>
          (wrapper' = "open" /\ storage'.sidebarOpen = "true")]_vars

-----------------------------------------------------------------------------
(* A tap on the toggle button of a touch device: touchend, then click.      *)

\* btn.ontouchend, content.js:768-772: the toggle is set for 50 ms later;
\* the browser then delivers the click of the same tap.
TouchEnd ==
    /\ ctx = "ready"
    /\ btn = "shown"
    /\ Pending("click") = {} /\ Pending("touch50") = {}
    /\ NoWrite(Add(Add(tasks, Task("touch50", NoSnap)), Task("click", NoSnap)), panelHist)
    /\ UNCHANGED <<extensionConfig, iframe, currentTitle, detecting, now, wrapper, btn,
                   ctx, otherOpen, completes>>
    /\ PanelFrame

\* btn.onclick for the click of the tap, content.js:774-776.
TapClick ==
    /\ \E t \in Pending("click") :
          ToggleCustomSidebar(Remove(tasks, t), [panelHist EXCEPT !.userActs = TRUE])
    /\ UNCHANGED <<extensionConfig, currentTitle, detecting, now, ctx, otherOpen,
                   completes>>
    /\ PanelFrame

\* The 50 ms timer of ontouchend, after the click of the tap.
Touch50Fires ==
    /\ Pending("click") = {}
    /\ \E t \in Pending("touch50") :
          ToggleCustomSidebar(Remove(tasks, t), [panelHist EXCEPT !.userActs = TRUE])
    /\ UNCHANGED <<extensionConfig, currentTitle, detecting, now, ctx, otherOpen,
                   completes>>
    /\ PanelFrame

\* The 50 ms timer of the first opening during a tap: a timer the click of
\* the tap has set runs after the timer of its touchend, set before it with
\* the same delay.
TapOpen50Fires ==
    /\ Pending("touch50") = {} \/ Pending("click") # {}
    /\ Open50Fires

InitTap ==
    /\ extensionConfig = NoConfig
    /\ els = InitElement /\ iframe = FALSE
    /\ IdleOut /\ IdleWatch /\ IdleInject /\ IdlePage
    /\ location = "/u1" /\ docTitle = "t1" /\ currentUrl = "/u1" /\ currentTitle = "t1"
    /\ detecting = FALSE /\ popstatePending = FALSE /\ titleTimers = 0
    /\ navHist = [navs |-> 0, notes |-> 0, polled |-> TRUE]
    /\ now = Now0
    /\ storage \in {st \in InitStorage : st.sidebarUrl # OtherUrl}
    /\ wrapper = "none" /\ btn = "none" /\ ctx = "none"
    /\ tasks = EmptyBag
    /\ otherOpen = FALSE
    /\ completes = 0
    /\ panelHist = NoPanelHist

NextTap ==
    \/ ContentStarts \/ ContentInit \/ RestoreTimerFires \/ StorageRead
    \/ RestoreCallback \/ Restore250Fires \/ TapOpen50Fires
    \/ TouchEnd \/ TapClick \/ Touch50Fires \/ UserClicksClose \/ Tick

SpecTap == InitTap /\ [][NextTap]_vars

\* The timer of ontouchend runs in this step.
Touch50Step ==
    \E t \in Pending("touch50") : CopiesIn(t, tasks') < CopiesIn(t, tasks)

\* C35: when the click and the delayed toggle of one tap have both run, one
\* after the other, the panel is in the other state than before the tap:
\* open if it was closed, closed if it was open.
C35_TapTogglesOnce ==
    [][(Touch50Step /\ panelHist'.pair) =>
          (PanelOpen' <=> panelHist'.start # "open")]_vars

-----------------------------------------------------------------------------
(* One tab alone: its page-load restore, its toggles and its close button.  *)

ShowRequest ==
    RuntimeRequest(NoType, HostRequest("showCustomSidebar", JsNull, JsNull, JsNull,
                                       JsNull, JsNull, NoRequest, NoReply))

\* A showCustomSidebar message reaches the content script.
ShowMessage ==
    /\ ctx # "none"
    /\ ContentRuntimeListener(ShowRequest)

NextOneTab ==
    \/ ContentStarts \/ ContentInit \/ RestoreTimerFires \/ StorageRead
    \/ RestoreCallback \/ Restore250Fires \/ Open50Fires
    \/ UserClicksToggle \/ UserClicksClose \/ ShowMessage \/ Tick

SpecOneTab == InitTap /\ [][NextOneTab]_vars

\* The tab has written the persisted record: no record of the initial
\* states carries the time of the run.
TabHasPersisted == storage.lastStateChange >= Now0

\* C36: when the tab has no timer or callback pending, the isOpen it has
\* persisted last is true exactly if its panel is visible.
C36_PersistedMatchesVisible ==
    (Settled /\ TabHasPersisted) => (storage.sidebarOpen = "true" <=> wrapper = "open")

-----------------------------------------------------------------------------
(* The chain of the navigation notifications.                               *)

\* The messages of this step that carry an old and a new URL.
Transitions == NavMsgs("URL_CHANGED") \cup NavMsgs("url-changed")

\* C37: every navigation notification has a newUrl different from its
\* oldUrl; its oldUrl is the currentUrl before the step and its newUrl the
\* currentUrl after it; and a step without notification leaves currentUrl
\* as it is, so that the oldUrl of a notification is the newUrl of the one
\* before it, or the URL at the start for the first.
C37_NotificationChain ==
    [][/\ \A i \in Transitions :
             /\ emitted'[i].newUrl # emitted'[i].oldUrl
             /\ emitted'[i].oldUrl = currentUrl
             /\ emitted'[i].newUrl = currentUrl'
       /\ (Transitions = {}) => (currentUrl' = currentUrl)]_vars

\* After a first notification from /u1 to /u2, a second one, sent by the
\* title re-check, goes from /u2 to /u3.
C37_Witness ==
    /\ lastEvent.at = "detector" /\ lastEvent.type = "titleTimer"
    /\ navHist.notes >= 2
    /\ Len(emitted) >= 1 /\ emitted[1].oldUrl = "/u2" /\ emitted[1].newUrl = "/u3"
    /\ currentUrl = "/u3"

-----------------------------------------------------------------------------
(* The panel elements of the document.                                      *)

\* C38: the document holds at most one panel wrapper, at most one panel
\* iframe and at most one toggle button, whatever initialisation, toggles,
\* showCustomSidebar messages, restore evaluations and timers have run; the
\* wrapper and the button the handlers look up are these elements.
C38_AtMostOnePanel ==
    /\ panelHist.wrappers <= 1 /\ panelHist.iframes <= 1 /\ panelHist.buttons <= 1
    /\ (wrapper # "none") <=> (panelHist.wrappers = 1)
    /\ iframe <=> (panelHist.iframes = 1)
    /\ (btn # "none") <=> (panelHist.buttons = 1)

\* The panel has been toggled twice by message after the page-load restore
\* created and opened it: one wrapper, one iframe, one button.
C38_Witness ==
    /\ Settled /\ panelHist.pair /\ "openFresh" \in panelHist.evals
    /\ lastEvent.at = "tab" /\ lastEvent.action = "showCustomSidebar"
    /\ wrapper = "open"
    /\ panelHist.wrappers = 1 /\ panelHist.iframes = 1 /\ panelHist.buttons = 1

-----------------------------------------------------------------------------
(* The openSidebar request: the sidebar page sends it when it has loaded,   *)
(* the background script relays showCustomSidebar to the sending tab.       *)

\* chrome.runtime.sendMessage({ action: "openSidebar" }), content.js:1287
OpenRequest == BgRequest(NoType, "openSidebar")

\* The messages among those sent that go to a tab.
ToTab(msgs) == SelectSeq(msgs, LAMBDA m : m.ch = "tab")

\* The background listener gets openSidebar, from the tab or from a page
\* that belongs to no tab; what it sends to the tab is in flight.
OpenSidebarArrives ==
    /\ ctx = "ready"
    /\ Pending("showMsg") = {}
    /\ \E fromTab \in BOOLEAN :
          LET ran  == SeparateIfs(Holding(BgBranches(OpenRequest)))
              sent == BgSent(ran, OpenRequest, fromTab)
          IN /\ emitted' = sent
             /\ lastEvent' = [EventOf("background", "-", OpenRequest.type,
                                      OpenRequest.action, "-", "-", "-", ran)
                                 EXCEPT !.returned = BgReturns(ran)]
             /\ NoWrite(IF ToTab(sent) = <<>> THEN tasks
                        ELSE Add(tasks, Task("showMsg", NoSnap)), panelHist)
    /\ threw' = FALSE
    /\ UNCHANGED <<extensionConfig, iframe, currentTitle, detecting, now, wrapper, btn,
                   ctx, otherOpen, completes>>
    /\ PanelRest

\* The relayed showCustomSidebar reaches the runtime listener of the
\* content script, content.js:165-168.
ShowDelivered ==
    /\ \E t \in Pending("showMsg") :
          LET ran == ElseIfChain(Holding(ContentRuntimeBranches(ShowRequest)))
          IN /\ lastEvent' = EventOf("tab", "-", ShowRequest.type, ShowRequest.action,
                                     "-", "-", "-", ran)
             /\ IF ran = <<"toggleCustomSidebar">>
                THEN ToggleCustomSidebar(Remove(tasks, t), panelHist)
                ELSE /\ NoWrite(Remove(tasks, t), panelHist)
                     /\ UNCHANGED <<iframe, wrapper, btn>>
    /\ emitted' = <<>>
    /\ threw' = FALSE
    /\ UNCHANGED <<extensionConfig, currentTitle, detecting, now, ctx, otherOpen,
                   completes>>
    /\ PanelRest

NextOpen ==
    \/ ContentStarts \/ ContentInit \/ RestoreTimerFires \/ StorageRead
    \/ RestoreCallback \/ Restore250Fires \/ Open50Fires
    \/ UserClicksToggle \/ UserClicksClose
    \/ OpenSidebarArrives \/ ShowDelivered

SpecOpen == InitTap /\ [][NextOpen]_vars

\* The background script handles an openSidebar request in this step.
OpenSidebarStep == lastEvent'.at = "background" /\ lastEvent'.action = "openSidebar"

\* The content script handles the relayed showCustomSidebar in this step.
ShowStep == \E t \in Pending("showMsg") : CopiesIn(t, tasks') < CopiesIn(t, tasks)

\* C39: the background script answers an openSidebar request of a tab with
\* one showCustomSidebar message, to that tab and to nothing else, and when
\* the content script has handled that message the panel of the tab is
\* open (or its first opening is under way): a panel that was open stays
\* open.
C39_OpenRequestOpens ==
    [][/\ OpenSidebarStep =>
             (emitted' = <<>> \/
              emitted' = <<Msg("tab", "showCustomSidebar", "", TabId, JsNull)>>)
       /\ ShowStep => PanelOpen']_vars

-----------------------------------------------------------------------------
(* The watch of the host channel and the watch of the window channel.       *)

\* The values of the change notifications of this step sent on channel ch
\* with watchId w, in the order of sending.
NoteValues(ch, w) ==
    LET notes == SelectSeq(emitted', LAMBDA m : m.type = "domValueChanged"
                                                 /\ m.ch = ch /\ m.id = w)
    IN [k \in DOMAIN notes |-> notes[k].value]

\* Binding i is a host-channel watch and binding j a window-channel watch
\* registered with the same arguments, and both have seen the same values.
Twins(i, j) ==
    /\ bindings[i].channel = "host" /\ bindings[j].channel = "window"
    /\ bindings[i].watchId = bindings[j].watchId
    /\ bindings[i].selector = bindings[j].selector
    /\ bindings[i].attribute = bindings[j].attribute
    /\ bindings[i].eventType = bindings[j].eventType
    /\ bindings[i].lastValue = bindings[j].lastValue

\* A watch has been registered in this step.
RegistrationStep == Len(bindings') = Len(bindings) + 1

\* C40: a host-channel watch and a window-channel watch with the same
\* registration arguments and the same history send the same (value,
\* watchId) notifications: every registration sends one notification with
\* the current value, on its channel, and every firing makes the two send
\* the same values, whether or not the tab holds the panel iframe.
C40_WatchChannelsEquivalent ==
    [][/\ RegistrationStep =>
             LET b == bindings'[Len(bindings')]
             IN NoteValues(IF b.channel = "host" THEN "runtime" ELSE "post", b.watchId)
                   = <<b.lastValue>>
       /\ FiringStep =>
             \A i, j \in DOMAIN bindings :
                 Twins(i, j) =>
                     NoteValues("runtime", bindings[i].watchId)
                        = NoteValues("post", bindings[j].watchId)]_vars

=============================================================================
